---- MODULE Spec2Model ----
(***************************************************************************)
(* A model of the procedural city generator of firecity                    *)
(* (src/src/components/CityScene.tsx): the seeded generator, the scale     *)
(* functions, the spiral layout, the window tile synthesis and the rise    *)
(* animation.                                                              *)
(*                                                                         *)
(* Number representations.                                                 *)
(*  - A 32-bit integer is a pair <<hi, lo>> of 16-bit halves (a TLC        *)
(*    integer is 32-bit signed, so a 32-bit product needs limbs).          *)
(*  - A value returned by a generator is the pair <<hi, lo>> of the        *)
(*    unsigned 32-bit numerator u of the fraction u / 0xffffffff.          *)
(*  - Heights are in tenths of a world unit, vertical scales in 1/100000,  *)
(*    the rise clock in 1/500.                                             *)
(***************************************************************************)
EXTENDS Integers, Sequences, FiniteSets, TLC

VARIABLES
    gens,       \* generator id -> the closure created by seededRng, or NoGen
    outs,       \* generator id -> the values the generator has returned
    stars,      \* the two star counts handed to starsToHeight
    heights,    \* the two heights it returned, or <<>> before the calls
    placed,     \* rank -> the grid cell and world position layoutCity's map
                \* callback gives the building of that rank
    rngHeap,    \* seed -> the accumulator of the closure last made for it
    firstLayout,\* the first call of layoutCity: its argument and its result
    lastLayout, \* the latest call of layoutCity: its argument and its result
    tile,       \* the running call of createWindowTile
    prevTile,   \* the call of createWindowTile that returned last
    buildings,  \* the mounted Building components: index and building.height
    riseProgress, \* CityScene's riseProgress.current
    mesh,       \* building -> mesh.scale.y and mesh.position.y
    doneRef,    \* building -> doneRef.current
    framePos,   \* the useFrame callback that runs next in the current frame
    fullTicks,  \* building -> its rise ticks run since the clock reached 1
    roads,      \* the latest run of the useMemo callback of Roads
    mounted,     \* CityScene is mounted
    activeName,  \* CityScene's activeName state, NoName for null
    hoveredName, \* CityScene's hoveredName state, NoName for null
    desatRef,    \* building -> desatRef.current
    materialT,   \* building -> the blend its materials were last written at
    labelOpacity,\* building -> the opacity of its label's sprite material
    lastFrame,  \* building -> the desaturation target of the latest frame
    frameParity, \* the number of frames run, modulo 2
    oneRepo,     \* the repository of a one-element list
    oneLayout,   \* the result of layoutCity for that list
    ground, \* the repos prop of the scene and the buildings memo made of it
    pads, \* what BuildingPads merged into its geometry
    lampData, \* what StreetLamps computed
    accentLights, \* the point lights BrandAccentLights returned
    redisUrl, \* REDIS_URL is set, so getRedis() returns a client
    today, \* the UTC day of new Date()
    rateCount, \* Redis: the counters at the ratelimit: keys, a key is <<day, ip>>
    rateTtl, \* Redis: the ratelimit: keys that have an expiry
    rateCalls, \* the suspended calls of checkRateLimit, in the order they began
    rateReturned, \* what the calls of checkRateLimit returned
    rateHanded, \* for every key the counts INCR has returned, in order
    rateBegun, \* the number of calls of checkRateLimit so far
    cacheData, \* Redis: the orgs that have an org:cache: key
    access, \* Redis: the sorted set org:access, a function from its members to their scores
    now, \* Date.now()
    cacheCalls, \* the suspended calls of getCached and setCached, in the order they began
    cacheBegun, \* the number of calls of getCached and setCached so far
    rateLimitBypass, \* RATE_LIMIT_BYPASS is "true"
    routeCached, \* Redis, as the route sees it: the orgs getCached finds
    routeCount, \* Redis, as the route sees it: the counter of every ip for today
    requests, \* the requests the route is handling, in the order they came
    responses, \* the requests the route has answered
    routeBegun, \* the number of requests so far
    pageMounted, \* CityPage is mounted
    pageOrg, \* params.org
    effectsPending, \* the effects of the last render with a new org have not run yet
    data, \* the data state: the org it was fetched for and whether it has repositories
    siteData, \* the siteData state: the org it was fetched for
    loading, \* the loading state
    error, \* the error state: the org whose fetch failed
    fetches, \* the calls of fetchAll that are suspended, in the order they began
    navigations, \* the number of changes of params.org so far
    homeMounted, \* Home, the landing page, is mounted
    formOrg, \* the org state of Home
    websiteUrl, \* the websiteUrl state
    apiKey, \* the apiKey state
    apiKeyConfirmed, \* the apiKeyConfirmed state
    envHasKey, \* the envHasKey state
    keyProbe, \* the fetch of /api/has-firecrawl-key is pending
    validationError, \* the validationError state
    searching, \* the searching state
    blogSuggested, \* the blogSuggested state
    blogConfirmed, \* the blogConfirmed state
    lookup, \* the call of handleSubmit suspended at its fetch of the GitHub profile
    awaiting, \* the lookup has put a blog URL into the form that the user has not answered
    pushed \* the latest router.push of Home

rngVars == <<gens, outs>>
scaleVars == <<stars, heights>>
spiralVars == <<placed>>
layoutVars == <<rngHeap, firstLayout, lastLayout>>
tileVars == <<tile, prevTile>>
sceneVars == <<buildings, riseProgress, mesh, doneRef, framePos, fullTicks>>
roadsVars == <<roads>>
cityVars == <<mounted, activeName, hoveredName, desatRef, materialT, labelOpacity,
              lastFrame, frameParity>>
recordVars == <<oneRepo, oneLayout>>
groundVars == <<ground, pads, lampData, accentLights>>
rateVars == <<redisUrl, today, rateCount, rateTtl, rateCalls, rateReturned, rateHanded, rateBegun>>
cacheVars == <<cacheData, access, now, cacheCalls, cacheBegun>>
routeVars == <<rateLimitBypass, routeCached, routeCount, requests, responses, routeBegun>>
pageVars == <<pageMounted, pageOrg, effectsPending, data, siteData, loading, error,
              fetches, navigations>>
homeVars == <<homeMounted, formOrg, websiteUrl, apiKey, apiKeyConfirmed, envHasKey, keyProbe, validationError, searching, blogSuggested, blogConfirmed, lookup, awaiting, pushed>>
vars == <<rngVars, scaleVars, spiralVars, layoutVars, tileVars, sceneVars,
          roadsVars, cityVars, recordVars, groundVars, rateVars, cacheVars,
          routeVars, pageVars, homeVars>>

\* What the operations of one component leave alone.
notRng == <<scaleVars, spiralVars, layoutVars, tileVars, sceneVars,
            roadsVars, cityVars, recordVars, groundVars, rateVars, cacheVars,
            routeVars, pageVars, homeVars>>
notScale == <<rngVars, spiralVars, layoutVars, tileVars, sceneVars,
              roadsVars, cityVars, recordVars, groundVars, rateVars,
              cacheVars, routeVars, pageVars, homeVars>>
notSpiral == <<rngVars, scaleVars, layoutVars, tileVars, sceneVars,
               roadsVars, cityVars, recordVars, groundVars, rateVars,
               cacheVars, routeVars, pageVars, homeVars>>
notLayout == <<rngVars, scaleVars, spiralVars, tileVars, sceneVars,
               roadsVars, cityVars, recordVars, groundVars, rateVars,
               cacheVars, routeVars, pageVars, homeVars>>
notTile == <<rngVars, scaleVars, spiralVars, layoutVars, sceneVars,
             roadsVars, cityVars, recordVars, groundVars, rateVars,
             cacheVars, routeVars, pageVars, homeVars>>
notScene == <<rngVars, scaleVars, spiralVars, layoutVars, tileVars,
              roadsVars, cityVars, recordVars, groundVars, rateVars,
              cacheVars, routeVars, pageVars, homeVars>>
notRoads == <<rngVars, scaleVars, spiralVars, layoutVars, tileVars,
              sceneVars, cityVars, recordVars, groundVars, rateVars,
              cacheVars, routeVars, pageVars, homeVars>>
notCity == <<rngVars, scaleVars, spiralVars, layoutVars, tileVars, sceneVars,
             roadsVars, recordVars, groundVars, rateVars, cacheVars,
             routeVars, pageVars, homeVars>>
notCityScene == <<rngVars, scaleVars, spiralVars, layoutVars, tileVars,
                  roadsVars, recordVars, groundVars, rateVars, cacheVars,
                  routeVars, pageVars, homeVars>>
notRecord == <<rngVars, scaleVars, spiralVars, layoutVars, tileVars,
               sceneVars, roadsVars, cityVars, groundVars, rateVars,
               cacheVars, routeVars, pageVars, homeVars>>
notGround == <<rngVars, scaleVars, spiralVars, layoutVars, tileVars,
               sceneVars, roadsVars, cityVars, recordVars, rateVars,
               cacheVars, routeVars, pageVars, homeVars>>
notRate == <<rngVars, scaleVars, spiralVars, layoutVars, tileVars, sceneVars,
             roadsVars, cityVars, recordVars, groundVars, cacheVars,
             routeVars, pageVars, homeVars>>
notCache == <<rngVars, scaleVars, spiralVars, layoutVars, tileVars,
              sceneVars, roadsVars, cityVars, recordVars, groundVars,
              rateVars, routeVars, pageVars, homeVars>>
notRoute == <<rngVars, scaleVars, spiralVars, layoutVars, tileVars,
              sceneVars, roadsVars, cityVars, recordVars, groundVars,
              rateVars, cacheVars, pageVars, homeVars>>
notPage == <<rngVars, scaleVars, spiralVars, layoutVars, tileVars, sceneVars,
             roadsVars, cityVars, recordVars, groundVars, rateVars,
             cacheVars, routeVars, homeVars>>
notHome == <<rngVars, scaleVars, spiralVars, layoutVars, tileVars, sceneVars,
             roadsVars, cityVars, recordVars, groundVars, rateVars,
             cacheVars, routeVars, pageVars>>

(***************************************************************************)
(* 32-bit arithmetic on <<hi, lo>> pairs.                                  *)
(***************************************************************************)
B16 == 65536

RECURSIVE XorBits(_, _, _)
XorBits(a, b, n) ==
    IF n = 0 THEN 0
    ELSE (((a % 2) + (b % 2)) % 2) + 2 * XorBits(a \div 2, b \div 2, n - 1)

\* The xor of two 4-bit numbers, tabulated.
XorNibble == [a \in 0..15 |-> [b \in 0..15 |-> XorBits(a, b, 4)]]

\* The xor of two 16-bit numbers, nibble by nibble.
Xor16(a, b) ==
    XorNibble[a % 16][b % 16]
    + 16 * XorNibble[(a \div 16) % 16][(b \div 16) % 16]
    + 256 * XorNibble[(a \div 256) % 16][(b \div 256) % 16]
    + 4096 * XorNibble[a \div 4096][b \div 4096]

\* h ^ (h >>> 16) on an int32: the high half is kept, the low half is xored
\* with the high half.
XorShift16(w) == <<w[1], Xor16(w[2], w[1])>>

\* -w modulo 2^32.
Neg32(w) ==
    LET lo == (B16 - w[2]) % B16
        borrow == IF w[2] = 0 THEN 0 ELSE 1
    IN  <<(B16 - w[1] - borrow) % B16, lo>>

\* a * b for 0 <= a, b < 2^16, as <<hi, lo>>.
Mul16(a, b) ==
    LET t == a * (b \div 256)
        s == (t % 256) * 256 + a * (b % 256)
    IN  <<t \div 256 + s \div B16, s % B16>>

\* The number of bits of n (0 for n = 0).
RECURSIVE BitLen(_)
BitLen(n) == IF n = 0 THEN 0 ELSE 1 + BitLen(n \div 2)

RECURSIVE Pow2(_)
Pow2(k) == IF k = 0 THEN 1 ELSE 2 * Pow2(k - 1)

\* 0x45d9f3b = 1117 * 2^16 + 40763
MulHi == 1117
MulLo == 40763

\* ToInt32(x * 0x45d9f3b) for an int32 x, where the product is a double:
\* the exact product (below 2^58) is rounded to 53 significant bits, ties to
\* even, before it is reduced modulo 2^32.
MulDouble(w) ==
    LET neg == w[1] >= 32768
        m   == IF neg THEN Neg32(w) ELSE w
        a   == Mul16(m[2], MulLo)
        b   == Mul16(m[1], MulLo)
        c   == m[2] * MulHi
        d   == m[1] * MulHi
        t1  == a[1] + b[2] + (c % B16)
        t2  == b[1] + (c \div B16) + (d % B16) + (t1 \div B16)
        l0  == a[2]
        l1  == t1 % B16
        l3  == (d \div B16) + (t2 \div B16)
        k   == IF l3 < 32 THEN 0 ELSE BitLen(l3) - 5
        q   == Pow2(k)
        r   == l0 % q
        up  == k > 0 /\ (2 * r > q \/ (2 * r = q /\ (l0 \div q) % 2 = 1))
        r0  == l0 - r + (IF up THEN q ELSE 0)
        lo  == r0 % B16
        hi  == (l1 + r0 \div B16) % B16
    IN  IF neg THEN Neg32(<<hi, lo>>) ELSE <<hi, lo>>

(***************************************************************************)
(* seededRng                                                               *)
(***************************************************************************)
\* h = (Math.imul(31, h) + seed.charCodeAt(i)) | 0
HashStep(w, code) ==
    LET lo == 31 * w[2] + code
    IN  <<(31 * w[1] + lo \div B16) % B16, lo % B16>>

RECURSIVE HashFrom(_, _)
HashFrom(w, seed) ==
    IF seed = <<>> THEN w ELSE HashFrom(HashStep(w, Head(seed)), Tail(seed))

\* The accumulator h of a generator just created from seed.
SeedHash(seed) == HashFrom(<<0, 0>>, seed)

\* One draw: the accumulator after the three statements of the closure.
NextH(w) == XorShift16(MulDouble(XorShift16(MulDouble(XorShift16(w)))))

\* The value a draw returns, (h >>> 0) / 0xffffffff, as the numerator h >>> 0.
DrawValue(w) == w

\* The returned value is exactly 1.
IsOne(v) == v = <<65535, 65535>>

\* floor(v * n) for a returned value v and 0 < n < 32768, in exact arithmetic.
FloorMul(v, n) ==
    LET i0 == (v[1] * n + (v[2] * n) \div B16) \div B16
        i1 == i0 + 1
    IN  IF v[1] * n + (v[2] * n + i1) \div B16 >= i1 * B16 THEN i1 ELSE i0

\* v < a / 1000 for a returned value v and 0 <= a <= 1000, in exact arithmetic.
LessThanMilli(v, a) == v[1] * 1000 + (v[2] * 1000 + a) \div B16 < a * B16

(***************************************************************************)
(* Seed strings, as sequences of UTF-16 code units.                        *)
(***************************************************************************)
SeedEmpty == <<>>                                   \* ""
NameA == <<97>>                                     \* "a"
NameB == <<98>>                                     \* "b"
NameC == <<99>>                                     \* "c"
NameIjkpee == <<105, 106, 107, 112, 101, 101>>      \* "ijkpee"
NameElrbvr == <<101, 108, 114, 98, 118, 114>>       \* "elrbvr"
FrontSuffix == <<102, 114, 111, 110, 116>>          \* "front"
SideSuffix == <<115, 105, 100, 101>>                \* "side"

(***************************************************************************)
(* Generators: seededRng(seed) returns a closure over its own h.           *)
(***************************************************************************)
MaxDraws == 4
NGens == 2
GenIds == 1..NGens
RngSeeds == {SeedEmpty, NameA, NameB, NameIjkpee, NameElrbvr \o FrontSuffix}

NoGen == [live |-> FALSE, seed |-> <<>>, h |-> <<0, 0>>]

\* seededRng(seed): a new closure whose h is the folded seed.
NewGen(seed) == [live |-> TRUE, seed |-> seed, h |-> SeedHash(seed)]

\* A bug: the accumulator is one variable shared by every closure.
DrawShared(gs, g) == [x \in DOMAIN gs |-> [gs[x] EXCEPT !.h = NextH(gs[g].h)]]

\* A call of generator g: only the h captured by g's closure is written.
DrawFrom(gs, g) == [gs EXCEPT ![g].h = NextH(gs[g].h)]

RngIdle ==
    /\ gens = [g \in GenIds |-> NoGen]
    /\ outs = [g \in GenIds |-> <<>>]

MakeGen(g, seed) ==
    /\ ~gens[g].live
    /\ gens' = [gens EXCEPT ![g] = NewGen(seed)]
    /\ UNCHANGED outs
    /\ UNCHANGED notRng

Draw(g) ==
    /\ gens[g].live
    /\ Len(outs[g]) < MaxDraws
    /\ gens' = DrawFrom(gens, g)
    /\ outs' = [outs EXCEPT ![g] = Append(@, DrawValue(gens'[g].h))]
    /\ UNCHANGED notRng

RngNext ==
    \/ \E g \in GenIds, seed \in RngSeeds : MakeGen(g, seed)
    \/ \E g \in GenIds : Draw(g)

(***************************************************************************)
(* Scale functions.  Heights are in tenths of a world unit.                *)
(***************************************************************************)
\* floor(sqrt(n)), by bisection on lo <= sqrt(n) < hi.
RECURSIVE IsqrtIn(_, _, _)
IsqrtIn(n, lo, hi) ==
    IF hi - lo <= 1 THEN lo
    ELSE LET mid == (lo + hi) \div 2
         IN  IF mid * mid <= n THEN IsqrtIn(n, mid, hi) ELSE IsqrtIn(n, lo, mid)

Isqrt(n) == IsqrtIn(n, 0, 46341)

\* The integer part of log2(num / den), for num >= den > 0.
RECURSIVE Log2Int(_, _)
Log2Int(num, den) == IF num < 2 * den THEN 0 ELSE 1 + Log2Int(num, 2 * den)

\* The fraction bits of log2(m / 2^14) for a mantissa 2^14 <= m < 2^15, by
\* repeated squaring: n bits, most significant first, as a number below 2^n.
RECURSIVE Log2Frac(_, _)
Log2Frac(m, n) ==
    IF n = 0 THEN 0
    ELSE LET sq == (m * m) \div 16384
         IN  IF sq >= 32768
             THEN Pow2(n - 1) + Log2Frac(sq \div 2, n - 1)
             ELSE Log2Frac(sq, n - 1)

\* Math.log10(num / den) * 1000, rounded down to a fixed-point value, for
\* den <= num < 2^17: log2 to 14 fraction bits, times log10(2) = 0.3010.
Log10Milli(num, den) ==
    LET e == Log2Int(num, den)
        m == (num * 16384) \div (den * Pow2(e))
    IN  ((e * 16384 + Log2Frac(m, 14)) * 3010) \div 163840

\* The formulas of the five segments of starsToHeight.
HeightLinear1(s) == 80 + s * 40
HeightLinear2(s) == 280 + (s - 5) * 20
HeightLinear3(s) == 1180 + (s - 50) * 5
HeightSqrt(s) == 3430 + Isqrt(900 * (s - 500))
HeightLog(s) == 4500 + Log10Milli(s, 5000)

starsToHeight(s) ==
    IF s = 0 THEN 80
    ELSE IF s <= 5 THEN HeightLinear1(s)
    ELSE IF s <= 50 THEN HeightLinear2(s)
    ELSE IF s <= 500 THEN HeightLinear3(s)
    ELSE IF s <= 5000 THEN HeightSqrt(s)
    ELSE HeightLog(s)

\* A bug: a floor for every 10 units of height, rounded down.
starsToFloorsTenth(s) == starsToHeight(s) \div 100

\* Math.max(1, Math.round(starsToHeight(stars) / 6))
starsToFloors(s) ==
    LET r == (starsToHeight(s) + 30) \div 60
    IN  IF r < 1 THEN 1 ELSE r

\* The star counts the calls are made with: the neighbourhood of every
\* segment boundary, and some large counts.
Window == 2
Breakpoints == {0, 5, 50, 500, 5000}
LargeStars == {10000, 43000, 50000, 131071}
StarSamples ==
    {s \in UNION {(b - Window)..(b + Window) : b \in Breakpoints} : s >= 0}
        \cup LargeStars

ScaleIdle ==
    /\ stars = <<0, 0>>
    /\ heights = <<>>

ScaleInit ==
    /\ stars \in StarSamples \X StarSamples
    /\ heights = <<>>

\* Both calls of starsToHeight.
CallStarsToHeight ==
    /\ heights = <<>>
    /\ heights' = <<starsToHeight(stars[1]), starsToHeight(stars[2])>>
    /\ UNCHANGED stars
    /\ UNCHANGED notScale

ScaleNext == CallStarsToHeight

(***************************************************************************)
(* spiralCoord                                                             *)
(***************************************************************************)
SpiralStart ==
    [x |-> 0, z |-> 0, dx |-> 1, dz |-> 0, steps |-> 1, stepsTaken |-> 0,
     turns |-> 0]

\* A bug: the arm length never grows, so the walk runs around one square.
SpiralStepNoGrow(st) ==
    IF st.stepsTaken + 1 = st.steps
    THEN [x |-> st.x + st.dx, z |-> st.z + st.dz, dx |-> -st.dz, dz |-> st.dx,
          steps |-> st.steps, stepsTaken |-> 0, turns |-> st.turns + 1]
    ELSE [st EXCEPT !.x = st.x + st.dx, !.z = st.z + st.dz,
                    !.stepsTaken = st.stepsTaken + 1]

\* One iteration of the loop of spiralCoord.
SpiralStep(st) ==
    IF st.stepsTaken + 1 = st.steps
    THEN [x |-> st.x + st.dx, z |-> st.z + st.dz, dx |-> -st.dz, dz |-> st.dx,
          steps |-> IF (st.turns + 1) % 2 = 0 THEN st.steps + 1 ELSE st.steps,
          stepsTaken |-> 0, turns |-> st.turns + 1]
    ELSE [st EXCEPT !.x = st.x + st.dx, !.z = st.z + st.dz,
                    !.stepsTaken = st.stepsTaken + 1]

\* The loop variables after n more iterations.  The iterations are run in
\* two halves, and the test on mid makes the first half be evaluated before
\* the second starts, which keeps the evaluation shallow.
RECURSIVE SpiralLoop(_, _)
SpiralLoop(st, n) ==
    IF n = 0 THEN st
    ELSE IF n = 1 THEN SpiralStep(st)
    ELSE LET mid == SpiralLoop(st, n \div 2)
         IN  IF mid.x = mid.x THEN SpiralLoop(mid, n - (n \div 2)) ELSE mid

spiralCoord(index) ==
    IF index = 0 THEN <<0, 0>>
    ELSE LET st == SpiralLoop(SpiralStart, index) IN <<st.x, st.z>>

CELL == 50
STREET == 30

\* The world position of the building of rank i (0-based).
PlaceAt(i) ==
    LET c == spiralCoord(i) IN <<c[1] * (CELL + STREET), c[2] * (CELL + STREET)>>

MaxIndex == 120

SpiralIdle == placed = <<>>

\* layoutCity's map callback reaches the next rank: its cell and position.
PlaceNext ==
    /\ Len(placed) <= MaxIndex
    /\ placed' = Append(placed, [cell |-> spiralCoord(Len(placed)),
                                 pos |-> PlaceAt(Len(placed))])
    /\ UNCHANGED notSpiral

SpiralNext == PlaceNext

(***************************************************************************)
(* layoutCity                                                              *)
(***************************************************************************)
\* [...repos].sort((a, b) => b.repo_stars - a.repo_stars): a stable sort.
\* A bug: equal star counts are put in reverse input order.
RECURSIVE InsertDescTiesReversed(_, _)
InsertDescTiesReversed(sorted, r) ==
    IF sorted = <<>> THEN <<r>>
    ELSE IF Head(sorted).stars > r.stars
         THEN <<Head(sorted)>> \o InsertDescTiesReversed(Tail(sorted), r)
         ELSE <<r>> \o sorted

\* r is put after every element that does not have fewer stars.
RECURSIVE InsertDesc(_, _)
InsertDesc(sorted, r) ==
    IF sorted = <<>> THEN <<r>>
    ELSE IF Head(sorted).stars >= r.stars
         THEN <<Head(sorted)>> \o InsertDesc(Tail(sorted), r)
         ELSE <<r>> \o sorted

RECURSIVE SortByStarsDesc(_)
SortByStarsDesc(repos) ==
    IF repos = <<>> THEN <<>>
    ELSE InsertDesc(SortByStarsDesc(SubSeq(repos, 1, Len(repos) - 1)),
                    repos[Len(repos)])

\* A bug: a closure made earlier for the same seed is used again.
LayoutRngCached(heap, name) ==
    IF name \in DOMAIN heap THEN heap[name] ELSE SeedHash(name)

\* const rng = seededRng(repo.repo_name): the accumulator of a new closure.
LayoutRng(heap, name) == SeedHash(name)

\* The record of the building of rank i (0-based); width and depth are in
\* thousandths, height in tenths.
BuildingOf(heap, repo, i) ==
    LET h1 == NextH(LayoutRng(heap, repo.name))
        h2 == NextH(h1)
    IN  [repo |-> repo, x |-> PlaceAt(i)[1], z |-> PlaceAt(i)[2],
         width |-> 16000 + FloorMul(DrawValue(h1), 12000),
         depth |-> 14000 + FloorMul(DrawValue(h2), 10000),
         height |-> starsToHeight(repo.stars),
         floors |-> starsToFloors(repo.stars)]

layoutCity(heap, repos) ==
    LET sorted == SortByStarsDesc(repos)
    IN  [i \in 1..Len(sorted) |-> BuildingOf(heap, sorted[i], i - 1)]

\* The closures after the call: each repository's closure has drawn twice.
HeapAfter(heap, repos) ==
    [n \in DOMAIN heap \cup {repos[i].name : i \in 1..Len(repos)} |->
        IF \E i \in 1..Len(repos) : repos[i].name = n
        THEN NextH(NextH(LayoutRng(heap, n)))
        ELSE heap[n]]

MaxRepos == 3
LayoutNames == {NameA, NameB, NameIjkpee}
LayoutStars == {0, 10000}
Repos == [name : LayoutNames, stars : LayoutStars]

\* The repository lists: names are unique within a list.
RepoLists ==
    {L \in UNION {[1..n -> Repos] : n \in 0..MaxRepos} :
        \A i, j \in 1..Len(L) : L[i].name = L[j].name => i = j}

NoCall == [called |-> FALSE, repos |-> <<>>, buildings |-> <<>>]

LayoutIdle ==
    /\ rngHeap = <<>>
    /\ firstLayout = NoCall
    /\ lastLayout = NoCall

CallLayoutCity(L) ==
    LET call == [called |-> TRUE, repos |-> L, buildings |-> layoutCity(rngHeap, L)]
    IN  /\ lastLayout' = call
        /\ firstLayout' = IF firstLayout.called THEN firstLayout ELSE call
        /\ rngHeap' = HeapAfter(rngHeap, L)
        /\ UNCHANGED notLayout

LayoutNext == \E L \in RepoLists : CallLayoutCity(L)

(***************************************************************************)
(* createWindowTile.  Colours are numbered: 0 is WINDOW_OFF_COLOR, 1..6    *)
(* are WINDOW_LIT_COLORS, 7 and 8 are brand colours.  litPct is in         *)
(* thousandths.                                                            *)
(***************************************************************************)
TILE_ROWS == 4
OffColor == 0
WindowLitColors == <<1, 2, 3, 4, 5, 6>>

RECURSIVE Twice(_)
Twice(cs) == IF cs = <<>> THEN <<>> ELSE <<Head(cs), Head(cs)>> \o Twice(Tail(cs))

\* litColors: the palette, every brand colour pushed twice.
LitColors(brandColors) == WindowLitColors \o Twice(brandColors)

NoTile ==
    [running |-> FALSE, windowsX |-> 0, litPct |-> 0, seed |-> <<>>,
     brandColors |-> <<>>, h |-> <<0, 0>>, draws |-> 0, fillStyle |-> OffColor,
     lit |-> <<>>, decision |-> <<>>, decisionAt |-> <<>>, cells |-> <<>>]

\* The call has come to its loop: the canvas is filled with the off colour
\* and the generator is made.
TileStart(windowsX, litPct, seed, brandColors) ==
    [running |-> TRUE, windowsX |-> windowsX, litPct |-> litPct, seed |-> seed,
     brandColors |-> brandColors, h |-> SeedHash(seed), draws |-> 0,
     fillStyle |-> OffColor,
     lit |-> <<>>, decision |-> <<>>, decisionAt |-> <<>>, cells |-> <<>>]

\* ctx.fillStyle = litColors[i]: an index past the palette gives undefined,
\* which the canvas does not accept as a colour, so the fill style stays.
AssignFill(fillStyle, palette, i) ==
    IF i < Len(palette) THEN palette[i + 1] ELSE fillStyle

\* A bug: the unlit branch does not draw the value it is to discard.
TileCellNoDiscard(t) ==
    LET h1 == NextH(t.h)
        isLit == LessThanMilli(DrawValue(h1), t.litPct)
        h2 == NextH(h1)
        palette == LitColors(t.brandColors)
        fill == IF isLit
                THEN AssignFill(t.fillStyle, palette,
                                FloorMul(DrawValue(h2), Len(palette)))
                ELSE OffColor
    IN  [t EXCEPT !.h = IF isLit THEN h2 ELSE h1,
                  !.draws = IF isLit THEN t.draws + 2 ELSE t.draws + 1,
                  !.fillStyle = fill,
                  !.lit = Append(@, isLit),
                  !.decision = Append(@, DrawValue(h1)),
                  !.decisionAt = Append(@, t.draws + 1),
                  !.cells = Append(@, fill)]

\* One iteration of the inner loop: the next cell in row-major order.
\* decisionAt records the position in the stream of the draw r, decision
\* its value, cells the colour the cell is filled with.
TileCell(t) ==
    LET h1 == NextH(t.h)
        isLit == LessThanMilli(DrawValue(h1), t.litPct)
        h2 == NextH(h1)
        palette == LitColors(t.brandColors)
        fill == IF isLit
                THEN AssignFill(t.fillStyle, palette,
                                FloorMul(DrawValue(h2), Len(palette)))
                ELSE OffColor
    IN  [t EXCEPT !.h = h2,
                  !.draws = t.draws + 2,
                  !.fillStyle = fill,
                  !.lit = Append(@, isLit),
                  !.decision = Append(@, DrawValue(h1)),
                  !.decisionAt = Append(@, t.draws + 1),
                  !.cells = Append(@, fill)]

TileWidths == {2, 3}
TileLitPcts == {200, 600, 700}
TileSeeds == {NameA \o FrontSuffix, NameElrbvr \o FrontSuffix}
TileBrands == {<<>>, <<7>>}

TileIdle ==
    /\ tile = NoTile
    /\ prevTile = NoTile

CallCreateWindowTile(windowsX, litPct, seed, brandColors) ==
    /\ ~tile.running
    /\ tile' = TileStart(windowsX, litPct, seed, brandColors)
    /\ UNCHANGED prevTile
    /\ UNCHANGED notTile

PaintCell ==
    /\ tile.running
    /\ Len(tile.cells) < TILE_ROWS * tile.windowsX
    /\ tile' = TileCell(tile)
    /\ UNCHANGED prevTile
    /\ UNCHANGED notTile

ReturnTile ==
    /\ tile.running
    /\ Len(tile.cells) = TILE_ROWS * tile.windowsX
    /\ prevTile' = [tile EXCEPT !.running = FALSE]
    /\ tile' = NoTile
    /\ UNCHANGED notTile

TileNext ==
    \/ \E w \in TileWidths, p \in TileLitPcts, sd \in TileSeeds, bc \in TileBrands :
          CallCreateWindowTile(w, p, sd, bc)
    \/ PaintCell
    \/ ReturnTile

(***************************************************************************)
(* The rise animation: the rise useFrame callback of every Building and    *)
(* the clock useFrame callback of CityScene.  In a frame the callbacks of  *)
(* the Buildings run first, in the order of the buildings array, and the   *)
(* clock callback of their parent runs last.  The model follows the        *)
(* Buildings at the indices SceneIndices of a city; Buildings share        *)
(* nothing but the clock, which they only read.                            *)
(***************************************************************************)
ClockOne == 500
ScaleOne == 100000

Max(a, b) == IF a >= b THEN a ELSE b
Min(a, b) == IF a <= b THEN a ELSE b

\* mesh.position.y, in units of 1/2000000: (h * mesh.scale.y) / 2.
\* building.height / 2 is PositionY(h, ScaleOne).
PositionY(h, scaleY) == h * scaleY

RestingMesh(b) == [scaleY |-> ScaleOne, positionY |-> PositionY(b.height, ScaleOne)]

\* A bug: the eased scale starts at 0 instead of 0.001.
RiseEasedFromZero(b, global) ==
    LET delay  == 2 * b.index
        span   == Max(25, ClockOne - delay)
        gone   == Max(0, Min(span, global - delay))
        rest   == ((span - gone) * 1000) \div span
        eased  == (1000000000 - rest * rest * rest) \div 10000
        scaleY == (999 * eased) \div 1000
    IN  [scaleY |-> scaleY, positionY |-> PositionY(b.height, scaleY)]

\* The staggered, eased scale below the end of the clock.
RiseEased(b, global) ==
    LET delay  == 2 * b.index
        span   == Max(25, ClockOne - delay)
        gone   == Max(0, Min(span, global - delay))
        rest   == ((span - gone) * 1000) \div span
        eased  == (1000000000 - rest * rest * rest) \div 10000
        scaleY == 100 + (999 * eased) \div 1000
    IN  [scaleY |-> scaleY, positionY |-> PositionY(b.height, scaleY)]

\* A bug: the clock is compared with > 1, which it never exceeds, so no
\* building is ever forced to its resting state.
RiseTickNeverForced(b, m, done, global) ==
    IF done THEN [mesh |-> m, done |-> done]
    ELSE IF global > ClockOne
         THEN [mesh |-> RestingMesh(b), done |-> TRUE]
         ELSE [mesh |-> RiseEased(b, global), done |-> done]

\* The rise useFrame callback: the mesh and doneRef.current it leaves.
RiseTick(b, m, done, global) ==
    IF done THEN [mesh |-> m, done |-> done]
    ELSE IF global >= ClockOne
         THEN [mesh |-> RestingMesh(b), done |-> TRUE]
         ELSE [mesh |-> RiseEased(b, global), done |-> done]

MaxFullTicks == 2
SceneIndices == <<0, 1, 240, 300>>
SceneStars == {0, 5000}
\* Frame times in 1/60 s: delta * 0.6 is 5 * delta clock units.
FrameDeltas == {0, 1, 12, 120}

\* The buildings array is sorted by stars, descending.
SceneCities ==
    { [i \in 1..Len(SceneIndices) |->
          [index |-> SceneIndices[i], height |-> starsToHeight(st[i])]] :
      st \in { f \in [1..Len(SceneIndices) -> SceneStars] :
               \A i \in 1..(Len(SceneIndices) - 1) : f[i] >= f[i + 1] } }

SceneIdle ==
    /\ buildings = <<>>
    /\ riseProgress = 0
    /\ mesh = <<>>
    /\ doneRef = <<>>
    /\ framePos = 1
    /\ fullTicks = <<>>

\* After the first render: the mesh has the default scale and the position
\* of its position prop.
SceneInit ==
    /\ buildings \in SceneCities
    /\ riseProgress = 0
    /\ mesh = [i \in 1..Len(buildings) |-> RestingMesh(buildings[i])]
    /\ doneRef = [i \in 1..Len(buildings) |-> FALSE]
    /\ framePos = 1
    /\ fullTicks = [i \in 1..Len(buildings) |-> 0]

RiseFrame(i) ==
    /\ framePos = i
    /\ LET r == RiseTick(buildings[i], mesh[i], doneRef[i], riseProgress)
       IN  /\ mesh' = [mesh EXCEPT ![i] = r.mesh]
           /\ doneRef' = [doneRef EXCEPT ![i] = r.done]
    /\ fullTicks' = IF riseProgress >= ClockOne
                    THEN [fullTicks EXCEPT ![i] = Min(MaxFullTicks, @ + 1)]
                    ELSE fullTicks
    /\ framePos' = i + 1
    /\ UNCHANGED <<buildings, riseProgress>>
    /\ UNCHANGED notScene

\* A bug: the clock is advanced without the clamp at 1.
ClockAfterUnclamped(progress, delta) ==
    IF progress < ClockOne THEN progress + 5 * delta ELSE progress

\* riseProgress.current after CityScene's clock callback.
ClockAfter(progress, delta) ==
    IF progress < ClockOne THEN Min(ClockOne, progress + 5 * delta) ELSE progress

ClockFrame(delta) ==
    /\ framePos = Len(buildings) + 1
    /\ riseProgress' = ClockAfter(riseProgress, delta)
    /\ framePos' = 1
    /\ UNCHANGED <<buildings, mesh, doneRef, fullTicks>>
    /\ UNCHANGED notScene

SceneNext ==
    \/ \E i \in 1..Len(buildings) : RiseFrame(i)
    \/ \E delta \in FrameDeltas : ClockFrame(delta)

(***************************************************************************)
(* Roads: the segment list of the merged road geometry.  The buildings     *)
(* handed to Roads are the first n of a layout; Roads reads their x and z. *)
(* rotY is in quarter turns: 0 is an east-west road, 1 is Math.PI / 2.     *)
(***************************************************************************)
\* Math.round(a / b) for b > 0: the nearest integer, a half goes upwards.
RoundDiv(a, b) == (2 * a + b) \div (2 * b)

GridCell(b) == <<RoundDiv(b.x, CELL + STREET), RoundDiv(b.z, CELL + STREET)>>

\* The Map gridPositions: a later building replaces an earlier one of its cell.
GridPositions(bs) ==
    [c \in {GridCell(bs[i]) : i \in 1..Len(bs)} |->
        bs[CHOOSE i \in 1..Len(bs) :
              /\ GridCell(bs[i]) = c
              /\ \A j \in 1..Len(bs) : GridCell(bs[j]) = c => j <= i]]

\* A bug: the west neighbour is looked up as well as the east one, so every
\* east-west adjacency is found from both of its ends.
RoadsVisitBothWays(run) ==
    LET b == run.buildings[run.i]
        g == GridCell(b)
        right == <<g[1] + 1, g[2]>>
        left == <<g[1] - 1, g[2]>>
        doRight == <<g, right>> \notin run.visited /\ right \in DOMAIN run.gridPositions
        doLeft == <<g, left>> \notin run.visited /\ left \in DOMAIN run.gridPositions
        s1 == IF doRight
              THEN Append(run.segments,
                          [x |-> (b.x + run.gridPositions[right].x) \div 2, z |-> b.z,
                           length |-> CELL + STREET, rotY |-> 0])
              ELSE run.segments
        s2 == IF doLeft
              THEN Append(s1, [x |-> (b.x + run.gridPositions[left].x) \div 2, z |-> b.z,
                               length |-> CELL + STREET, rotY |-> 0])
              ELSE s1
    IN  [run EXCEPT !.i = @ + 1, !.segments = s2,
                    !.visited = @ \cup (IF doRight THEN {<<g, right>>} ELSE {})
                                  \cup (IF doLeft THEN {<<g, left>>} ELSE {})]

\* One round of the loop over the buildings: the east and the north neighbour.
RoadsVisit(run) ==
    LET b == run.buildings[run.i]
        g == GridCell(b)
        right == <<g[1] + 1, g[2]>>
        fwd == <<g[1], g[2] + 1>>
        doRight == <<g, right>> \notin run.visited /\ right \in DOMAIN run.gridPositions
        v1 == IF doRight THEN run.visited \cup {<<g, right>>} ELSE run.visited
        s1 == IF doRight
              THEN Append(run.segments,
                          [x |-> (b.x + run.gridPositions[right].x) \div 2, z |-> b.z,
                           length |-> CELL + STREET, rotY |-> 0])
              ELSE run.segments
        doFwd == <<g, fwd>> \notin v1 /\ fwd \in DOMAIN run.gridPositions
        v2 == IF doFwd THEN v1 \cup {<<g, fwd>>} ELSE v1
        s2 == IF doFwd
              THEN Append(s1, [x |-> b.x, z |-> (b.z + run.gridPositions[fwd].z) \div 2,
                               length |-> CELL + STREET, rotY |-> 1])
              ELSE s1
    IN  [run EXCEPT !.i = @ + 1, !.visited = v2, !.segments = s2]

MaxRoadBuildings == 16

\* The x and z of the first n buildings of a layout.
LayoutPrefix(n) == [i \in 1..n |-> [x |-> PlaceAt(i - 1)[1], z |-> PlaceAt(i - 1)[2]]]

NoRoads ==
    [called |-> FALSE, running |-> FALSE, buildings |-> <<>>, gridPositions |-> <<>>,
     i |-> 1, visited |-> {}, segments |-> <<>>, geometry |-> FALSE]

RoadsIdle == roads = NoRoads

\* The useMemo callback starts: the early return, or gridPositions is filled.
CallRoads(n) ==
    /\ ~roads.running
    /\ roads' = IF n < 2
                THEN [NoRoads EXCEPT !.called = TRUE, !.buildings = LayoutPrefix(n)]
                ELSE [NoRoads EXCEPT !.called = TRUE, !.running = TRUE,
                                     !.buildings = LayoutPrefix(n),
                                     !.gridPositions = GridPositions(LayoutPrefix(n))]
    /\ UNCHANGED notRoads

RoadsVisitNext ==
    /\ roads.running
    /\ roads.i <= Len(roads.buildings)
    /\ roads' = RoadsVisit(roads)
    /\ UNCHANGED notRoads

\* The segments are merged into the geometry the callback returns.
RoadsReturn ==
    /\ roads.running
    /\ roads.i > Len(roads.buildings)
    /\ roads' = [roads EXCEPT !.running = FALSE, !.geometry = TRUE]
    /\ UNCHANGED notRoads

RoadsNext ==
    \/ \E n \in 0..MaxRoadBuildings : CallRoads(n)
    \/ RoadsVisitNext
    \/ RoadsReturn

(***************************************************************************)
(* CityScene with its Buildings: selection, hover, desaturation and the    *)
(* replacement of the repos prop.  A frame runs the two useFrame callbacks *)
(* of every Building and then the clock callback of CityScene, without     *)
(* any event handler in between.  Desaturation progress, label opacity and *)
(* blend factors are in thousandths, frame times in 1/60 s.                *)
(***************************************************************************)
NoName == <<>>
DesatEps == 2
DimmedLabel == 150

Abs(x) == IF x < 0 THEN -x ELSE x

\* THREE.MathUtils.lerp(a, b, t).
Lerp(a, b, t) == a + ((b - a) * t) \div 1000

\* opacity={hovered ? 1 : 0.6}
LabelBase(hovered) == IF hovered THEN 1000 ELSE 600

\* A bug: the blend factor is not clamped at 1.
BlendFactorUnclamped(delta) == 100 * delta

\* Math.min(1, delta * 6)
BlendFactor(delta) == Min(1000, 100 * delta)

\* desaturated={!!activeName && !isActive}
Desaturated(active, name) == active # NoName /\ active # name

DesatTarget(desaturated) == IF desaturated THEN 1000 ELSE 0

\* A bug: within the epsilon the callback returns without snapping.
DesatTickNoSnap(inst, desaturated, hovered, delta) ==
    LET target == DesatTarget(desaturated)
        d == inst.desatRef
    IN  IF Abs(d - target) < DesatEps
        THEN inst
        ELSE LET gap == Abs(target - d)
                 step == (gap * BlendFactor(delta)) \div 1000
                 t == IF target >= d THEN d + step ELSE d - step
             IN  [desatRef |-> t, materialT |-> t,
                  labelOpacity |-> Lerp(LabelBase(hovered), DimmedLabel, t)]

\* The desaturation useFrame callback of a Building.  materialT is the
\* blend at which the parameters of its materials were last written: 0 is
\* the original parameters, 1000 the desaturated ones.
DesatTick(inst, desaturated, hovered, delta) ==
    LET target == DesatTarget(desaturated)
        d == inst.desatRef
    IN  IF Abs(d - target) < DesatEps
        THEN IF d # target
             THEN [desatRef |-> target, materialT |-> target,
                   labelOpacity |-> IF target = 0 THEN LabelBase(hovered)
                                    ELSE DimmedLabel]
             ELSE inst
        ELSE LET gap == Abs(target - d)
                 step == (gap * BlendFactor(delta)) \div 1000
                 t == IF target >= d THEN d + step ELSE d - step
             IN  [desatRef |-> t, materialT |-> t,
                  labelOpacity |-> Lerp(LabelBase(hovered), DimmedLabel, t)]

\* The Building instances of CityScene for a repos prop, in layout order.
CityBuildings(repos) ==
    LET sorted == SortByStarsDesc(repos)
    IN  [i \in 1..Len(sorted) |->
            [index |-> i - 1, height |-> starsToHeight(sorted[i].stars),
             name |-> sorted[i].name, x |-> PlaceAt(i - 1)[1], z |-> PlaceAt(i - 1)[2]]]

CityRepoLists ==
    {<<[name |-> NameA, stars |-> 10000], [name |-> NameB, stars |-> 0]>>,
     <<[name |-> NameB, stars |-> 50], [name |-> NameC, stars |-> 5000]>>,
     <<[name |-> NameB, stars |-> 0]>>}
CityDeltas == {9, 120}

\* buildings = useMemo(() => layoutCity(repos), [repos])
CityLayoutOf == [repos \in CityRepoLists |-> CityBuildings(repos)]

InstanceOf(i) ==
    [desatRef |-> desatRef[i], materialT |-> materialT[i],
     labelOpacity |-> labelOpacity[i]]

NoFrame == <<>>

CityIdle ==
    /\ mounted = FALSE
    /\ activeName = NoName
    /\ hoveredName = NoName
    /\ desatRef = <<>>
    /\ materialT = <<>>
    /\ labelOpacity = <<>>
    /\ lastFrame = NoFrame
    /\ frameParity = 0

\* CityScene and its Buildings are mounted: every ref and state is initial.
MountCity(repos) ==
    /\ ~mounted
    /\ mounted' = TRUE
    /\ buildings' = CityLayoutOf[repos]
    /\ riseProgress' = 0
    /\ mesh' = [i \in 1..Len(buildings') |-> RestingMesh(buildings'[i])]
    /\ doneRef' = [i \in 1..Len(buildings') |-> FALSE]
    /\ fullTicks' = [i \in 1..Len(buildings') |-> 0]
    /\ desatRef' = [i \in 1..Len(buildings') |-> 0]
    /\ materialT' = [i \in 1..Len(buildings') |-> 0]
    /\ labelOpacity' = [i \in 1..Len(buildings') |-> LabelBase(FALSE)]
    /\ activeName' = NoName
    /\ hoveredName' = NoName
    /\ UNCHANGED <<framePos, lastFrame, frameParity>>
    /\ UNCHANGED notCityScene

\* The page stops rendering City: the scene and its state are discarded.
UnmountCity ==
    /\ mounted
    /\ mounted' = FALSE
    /\ buildings' = <<>>
    /\ riseProgress' = 0
    /\ mesh' = <<>>
    /\ doneRef' = <<>>
    /\ fullTicks' = <<>>
    /\ desatRef' = <<>>
    /\ materialT' = <<>>
    /\ labelOpacity' = <<>>
    /\ activeName' = NoName
    /\ hoveredName' = NoName
    /\ lastFrame' = NoFrame
    /\ UNCHANGED <<framePos, frameParity>>
    /\ UNCHANGED notCityScene

\* The place in the buildings array of the Building with that key.
IndexOfKey(bs, name) == CHOOSE j \in 1..Len(bs) : bs[j].name = name

HasKey(bs, name) == \E j \in 1..Len(bs) : bs[j].name = name

\* CityScene is rendered with another repos prop while it is mounted.  A
\* Building whose key (the repository name) is in both layouts keeps its
\* refs; its materials are made anew for the new building object, and its
\* mesh is moved when the position prop changed.
SetRepos(repos) ==
    LET new == CityLayoutOf[repos]
        old(i) == IndexOfKey(buildings, new[i].name)
        kept(i) == HasKey(buildings, new[i].name)
        sameProp(i) ==
            /\ buildings[old(i)].x = new[i].x
            /\ buildings[old(i)].z = new[i].z
            /\ buildings[old(i)].height = new[i].height
    IN  /\ mounted
        /\ new # buildings
        /\ buildings' = new
        /\ mesh' = [i \in 1..Len(new) |->
                      IF ~kept(i) THEN RestingMesh(new[i])
                      ELSE IF sameProp(i) THEN mesh[old(i)]
                      ELSE [mesh[old(i)] EXCEPT
                               !.positionY = PositionY(new[i].height, ScaleOne)]]
        /\ doneRef' = [i \in 1..Len(new) |-> IF kept(i) THEN doneRef[old(i)] ELSE FALSE]
        /\ fullTicks' = [i \in 1..Len(new) |-> IF kept(i) THEN fullTicks[old(i)] ELSE 0]
        /\ desatRef' = [i \in 1..Len(new) |-> IF kept(i) THEN desatRef[old(i)] ELSE 0]
        /\ materialT' = [i \in 1..Len(new) |-> 0]
        /\ labelOpacity' = [i \in 1..Len(new) |->
                              IF kept(i) THEN labelOpacity[old(i)]
                              ELSE LabelBase(hoveredName = new[i].name)]
        /\ UNCHANGED <<mounted, riseProgress, framePos, activeName, hoveredName,
                       lastFrame, frameParity>>
        /\ UNCHANGED notCityScene

\* A bug: a click while a building is selected clears the selection,
\* whichever building is clicked.
handleClickClearsFirst(prev, name) == IF prev = NoName THEN name ELSE NoName

\* setActiveName((prev) => (prev === name ? null : name))
handleClick(prev, name) == IF prev = name THEN NoName ELSE name

\* The click on a building toggles the selection.
ClickBuilding(i) ==
    /\ mounted
    /\ activeName' = handleClick(activeName, buildings[i].name)
    /\ UNCHANGED <<mounted, hoveredName, desatRef, materialT, labelOpacity,
                   lastFrame, frameParity>>
    /\ UNCHANGED sceneVars
    /\ UNCHANGED notCityScene

\* The Canvas reports a click that hit no building: deselectRef.current().
PointerMissed ==
    /\ mounted
    /\ activeName' = NoName
    /\ UNCHANGED <<mounted, hoveredName, desatRef, materialT, labelOpacity,
                   lastFrame, frameParity>>
    /\ UNCHANGED sceneVars
    /\ UNCHANGED notCityScene

\* The label's opacity prop is written to the sprite material of every
\* Building whose hovered prop changed.
LabelsAfterHover(name) ==
    [i \in 1..Len(buildings) |->
        IF (hoveredName = buildings[i].name) # (name = buildings[i].name)
        THEN LabelBase(name = buildings[i].name)
        ELSE labelOpacity[i]]

\* handleHover
HoverBuilding(i) ==
    /\ mounted
    /\ hoveredName' = buildings[i].name
    /\ labelOpacity' = LabelsAfterHover(buildings[i].name)
    /\ UNCHANGED <<mounted, activeName, desatRef, materialT, lastFrame, frameParity>>
    /\ UNCHANGED sceneVars
    /\ UNCHANGED notCityScene

\* handleUnhover
UnhoverBuilding ==
    /\ mounted
    /\ hoveredName' = NoName
    /\ labelOpacity' = LabelsAfterHover(NoName)
    /\ UNCHANGED <<mounted, activeName, desatRef, materialT, lastFrame, frameParity>>
    /\ UNCHANGED sceneVars
    /\ UNCHANGED notCityScene

\* One frame: the rise and the desaturation callback of every Building, then
\* the clock callback of CityScene.
CityFrame(delta) ==
    LET N == Len(buildings)
        rise(i) == RiseTick(buildings[i], mesh[i], doneRef[i], riseProgress)
        desaturated(i) == Desaturated(activeName, buildings[i].name)
        desat(i) == DesatTick(InstanceOf(i), desaturated(i),
                              hoveredName = buildings[i].name, delta)
    IN  /\ mounted
        /\ mesh' = [i \in 1..N |-> rise(i).mesh]
        /\ doneRef' = [i \in 1..N |-> rise(i).done]
        /\ fullTicks' = [i \in 1..N |->
                           IF riseProgress >= ClockOne
                           THEN Min(MaxFullTicks, fullTicks[i] + 1) ELSE fullTicks[i]]
        /\ desatRef' = [i \in 1..N |-> desat(i).desatRef]
        /\ materialT' = [i \in 1..N |-> desat(i).materialT]
        /\ labelOpacity' = [i \in 1..N |-> desat(i).labelOpacity]
        /\ riseProgress' = ClockAfter(riseProgress, delta)
        /\ lastFrame' = [i \in 1..N |-> DesatTarget(desaturated(i))]
        /\ frameParity' = 1 - frameParity
        /\ UNCHANGED <<mounted, buildings, framePos, activeName, hoveredName>>
        /\ UNCHANGED notCityScene

CityNext ==
    \/ \E repos \in CityRepoLists : MountCity(repos)
    \/ UnmountCity
    \/ \E repos \in CityRepoLists : SetRepos(repos)
    \/ \E i \in 1..Len(buildings) : ClickBuilding(i)
    \/ PointerMissed
    \/ \E i \in 1..Len(buildings) : HoverBuilding(i)
    \/ UnhoverBuilding
    \/ \E delta \in CityDeltas : CityFrame(delta)

(***************************************************************************)
(* The building record layoutCity makes for one repository.                *)
(***************************************************************************)
RecordNames == {SeedEmpty, NameA, NameIjkpee}

NoRecord == [called |-> FALSE, buildings |-> <<>>]

RecordIdle ==
    /\ oneRepo = [name |-> SeedEmpty, stars |-> 0]
    /\ oneLayout = NoRecord

RecordInit ==
    /\ oneRepo \in [name : RecordNames, stars : StarSamples]
    /\ oneLayout = NoRecord

\* layoutCity([repo])
CallLayoutOne ==
    /\ ~oneLayout.called
    /\ oneLayout' = [called |-> TRUE, buildings |-> layoutCity(<<>>, <<oneRepo>>)]
    /\ UNCHANGED oneRepo
    /\ UNCHANGED notRecord

RecordNext == CallLayoutOne

(***************************************************************************)
(* The ground-level builders of a scene: BuildingPads, StreetLamps,        *)
(* BrandAccentLights and Roads, each fed the buildings memo of CityScene.  *)
(* Lamp and light positions are in 1/2000 of a world unit; an offset along *)
(* z is rounded down to that unit.  Reading a property of undefined throws *)
(* a TypeError, which a builder's result records.                          *)
(***************************************************************************)
SuffixLamp == <<108, 97, 109, 112>>                 \* "lamp"
SuffixAccent == <<97, 99, 99, 101, 110, 116>>       \* "accent"

Undefined == [undefined |-> TRUE]

\* buildings[i], i counted from 0.
At(bs, i) == IF i < Len(bs) THEN bs[i + 1] ELSE Undefined

NotRun == [run |-> FALSE, threw |-> FALSE, out |-> <<>>]

\* One pad per building, as wide and deep as the building plus 8.
BuildingPads(bs) ==
    [run |-> TRUE, threw |-> FALSE,
     out |-> [i \in 1..Len(bs) |->
                 [x |-> bs[i].x, z |-> bs[i].z,
                  padW |-> bs[i].width + 8000, padD |-> bs[i].depth + 8000]]]

\* b.x + (rng() > 0.5 ? 1 : -1) * (b.width / 2 + margin) and
\* b.z + (rng() - 0.5) * b.depth, with the two draws of seededRng(name + suffix)
\* taken in that order; margin is in thousandths.
BesideBuilding(b, suffix, margin) ==
    LET h1 == NextH(SeedHash(b.repo.name \o suffix))
        h2 == NextH(h1)
        side == IF DrawValue(h1)[1] >= 32768 THEN 1 ELSE -1
    IN  [x |-> 2000 * b.x + side * (b.width + 2 * margin),
         z |-> 2000 * b.z + 2 * FloorMul(DrawValue(h2), b.depth) - b.depth]

\* A bug: the loop runs while i <= buildings.length, so its last round reads
\* past the end of the array.
RECURSIVE StreetLampsPastEnd(_, _, _)
StreetLampsPastEnd(bs, i, out) ==
    IF ~(i <= Len(bs)) THEN [run |-> TRUE, threw |-> FALSE, out |-> out]
    ELSE IF At(bs, i) = Undefined THEN [run |-> TRUE, threw |-> TRUE, out |-> out]
    ELSE StreetLampsPastEnd(bs, i + 3, Append(out, BesideBuilding(At(bs, i), SuffixLamp, 8000)))

\* for (let i = 0; i < buildings.length; i += 3): a lamp beside every third
\* building, from round i on.
RECURSIVE StreetLamps(_, _, _)
StreetLamps(bs, i, out) ==
    IF ~(i < Len(bs)) THEN [run |-> TRUE, threw |-> FALSE, out |-> out]
    ELSE IF At(bs, i) = Undefined THEN [run |-> TRUE, threw |-> TRUE, out |-> out]
    ELSE StreetLamps(bs, i + 3, Append(out, BesideBuilding(At(bs, i), SuffixLamp, 8000)))

\* A point light of the brand colour beside each of the first min(4, n)
\* buildings.
BrandAccentLights(bs, brandColor) ==
    LET topBuildings == SubSeq(bs, 1, Min(4, Len(bs)))
    IN  [run |-> TRUE, threw |-> FALSE,
         out |-> [i \in 1..Len(topBuildings) |->
                     [position |-> BesideBuilding(topBuildings[i], SuffixAccent, 4000),
                      color |-> brandColor]]]

\* The siteData prop: undefined, or an object whose branding.colors.primary
\* is a colour or is missing (NoColor).
NoColor == ""
NoSiteData == [defined |-> FALSE, primary |-> NoColor]
GroundSites ==
    {NoSiteData, [defined |-> TRUE, primary |-> NoColor],
     [defined |-> TRUE, primary |-> "#0055ff"]}

\* siteData?.branding?.colors?.primary || "#ff4400"
BrandPrimary(site) ==
    IF site.defined /\ site.primary # NoColor THEN site.primary ELSE "#ff4400"

\* The repository lists a scene is given: the beginnings of one list.
GroundRepos ==
    <<[name |-> NameB, stars |-> 50], [name |-> NameA, stars |-> 10000],
      [name |-> NameIjkpee, stars |-> 0], [name |-> NameC, stars |-> 5000],
      [name |-> NameElrbvr, stars |-> 700]>>
GroundLists == {SubSeq(GroundRepos, 1, n) : n \in 0..Len(GroundRepos)}

NoGround ==
    [called |-> FALSE, repos |-> <<>>, siteData |-> NoSiteData, buildings |-> <<>>]

GroundIdle ==
    /\ ground = NoGround
    /\ pads = NotRun
    /\ lampData = NotRun
    /\ accentLights = NotRun

\* CityScene renders with a repos and a siteData prop:
\* const buildings = layoutCity(repos); the builders' memos are stale until
\* they run again.
RenderScene(repos, site) ==
    /\ ground' = [called |-> TRUE, repos |-> repos, siteData |-> site,
                  buildings |-> layoutCity(<<>>, repos)]
    /\ pads' = NotRun
    /\ lampData' = NotRun
    /\ accentLights' = NotRun
    /\ UNCHANGED notGround

RenderBuildingPads ==
    /\ ground.called
    /\ ~pads.run
    /\ pads' = BuildingPads(ground.buildings)
    /\ UNCHANGED <<ground, lampData, accentLights>>
    /\ UNCHANGED notGround

RenderStreetLamps ==
    /\ ground.called
    /\ ~lampData.run
    /\ lampData' = StreetLamps(ground.buildings, 0, <<>>)
    /\ UNCHANGED <<ground, pads, accentLights>>
    /\ UNCHANGED notGround

\* {siteData && <BrandAccentLights buildings={buildings} brandColor={brandPrimary} />}
RenderBrandAccentLights ==
    /\ ground.called
    /\ ground.siteData.defined
    /\ ~accentLights.run
    /\ accentLights' = BrandAccentLights(ground.buildings, BrandPrimary(ground.siteData))
    /\ UNCHANGED <<ground, pads, lampData>>
    /\ UNCHANGED notGround

\* Roads is given the same buildings.
RenderRoads ==
    /\ ground.called
    /\ roads.buildings # LayoutPrefix(Len(ground.buildings)) \/ ~roads.called
    /\ CallRoads(Len(ground.buildings))

GroundNext ==
    \/ \E repos \in GroundLists, site \in GroundSites : RenderScene(repos, site)
    \/ RenderBuildingPads
    \/ RenderStreetLamps
    \/ RenderBrandAccentLights
    \/ RenderRoads
    \/ RoadsVisitNext
    \/ RoadsReturn

(***************************************************************************)
(* checkRateLimit (src/src/lib/cache.ts).  Calls run concurrently: a call  *)
(* is suspended at each await, and Redis executes one command at a time.   *)
(* A command may fail, and an INCR may fail after Redis has executed it.   *)
(* A key is the pair <<day, ip>>.  A key with an expiry goes away a day    *)
(* after its first use; a call takes less time than that, so a key does    *)
(* not go away while a call that built it is suspended.                    *)
(***************************************************************************)
DAILY_LIMIT == 5

\* A bug: the call that reaches the limit is rejected.
RateResultAtLimit(count) ==
    IF count >= DAILY_LIMIT THEN [allowed |-> FALSE, remaining |-> 0]
    ELSE [allowed |-> TRUE, remaining |-> DAILY_LIMIT - count]

\* What checkRateLimit returns for the count INCR gave.
RateResult(count) ==
    IF count > DAILY_LIMIT THEN [allowed |-> FALSE, remaining |-> 0]
    ELSE [allowed |-> TRUE, remaining |-> DAILY_LIMIT - count]

\* What it returns without a client and from its catch block.
FailOpen == [allowed |-> TRUE, remaining |-> DAILY_LIMIT]

MaxRateCalls == 7
MaxRateInFlight == 2
MaxRateFailures == 1
\* The calls come from two addresses, on two consecutive days.
RateDays == {1, 2}
RateIps == {1, 2}
RateKeys == RateDays \X RateIps

RateIdle ==
    /\ redisUrl = TRUE
    /\ today = 1
    /\ rateCount = <<>>
    /\ rateTtl = {}
    /\ rateCalls = <<>>
    /\ rateReturned = {}
    /\ rateHanded = <<>>
    /\ rateBegun = 0

RateInit ==
    /\ redisUrl \in BOOLEAN
    /\ today = 1
    /\ rateCount = <<>>
    /\ rateTtl = {}
    /\ rateCalls = <<>>
    /\ rateReturned = {}
    /\ rateHanded = <<>>
    /\ rateBegun = 0

CounterAt(key) == IF key \in DOMAIN rateCount THEN rateCount[key] ELSE 0

HandedAt(key) == IF key \in DOMAIN rateHanded THEN rateHanded[key] ELSE <<>>

Without(calls, i) == SubSeq(calls, 1, i - 1) \o SubSeq(calls, i + 1, Len(calls))

\* The record of a call that has returned.
Returned(key, count, failed, result) ==
    [key |-> key, count |-> count, failed |-> failed,
     allowed |-> result.allowed, remaining |-> result.remaining]

RateFailures == Cardinality({c \in rateReturned : c.failed})

\* A call begins: getRedis(), and with a client the key of today and the ip.
CheckRateLimit(ip) ==
    /\ rateBegun < MaxRateCalls
    /\ Len(rateCalls) < MaxRateInFlight
    /\ rateBegun' = rateBegun + 1
    /\ IF redisUrl
       THEN /\ rateCalls' = Append(rateCalls, [key |-> <<today, ip>>, pc |-> "incr",
                                                count |-> 0])
            /\ UNCHANGED rateReturned
       ELSE /\ rateReturned' = rateReturned \cup {Returned(<<>>, 0, FALSE, FailOpen)}
            /\ UNCHANGED rateCalls
    /\ UNCHANGED <<redisUrl, today, rateCount, rateTtl, rateHanded>>
    /\ UNCHANGED notRate

\* Redis executes INCR key.
Incremented(key) ==
    [k \in DOMAIN rateCount \cup {key} |->
        IF k = key THEN CounterAt(key) + 1 ELSE rateCount[k]]

\* const count = await r.incr(key), and the code up to the next await or return.
RateIncr(i) ==
    /\ i \in 1..Len(rateCalls)
    /\ rateCalls[i].pc = "incr"
    /\ LET key == rateCalls[i].key
           count == Incremented(key)[key]
       IN  /\ rateCount' = Incremented(key)
           /\ rateHanded' = [k \in DOMAIN rateHanded \cup {key} |->
                                IF k = key THEN Append(HandedAt(key), count)
                                ELSE rateHanded[k]]
           /\ IF count = 1
              THEN /\ rateCalls' = [rateCalls EXCEPT ![i] =
                                       [@ EXCEPT !.pc = "expire", !.count = count]]
                   /\ UNCHANGED rateReturned
              ELSE /\ rateCalls' = Without(rateCalls, i)
                   /\ rateReturned' = rateReturned \cup
                                         {Returned(key, count, FALSE, RateResult(count))}
    /\ UNCHANGED <<redisUrl, today, rateTtl, rateBegun>>
    /\ UNCHANGED notRate

\* r.incr(key) rejects: the catch block.  Redis may have executed the command.
RateIncrFails(i, executed) ==
    /\ i \in 1..Len(rateCalls)
    /\ rateCalls[i].pc = "incr"
    /\ RateFailures < MaxRateFailures
    /\ rateCount' = IF executed THEN Incremented(rateCalls[i].key) ELSE rateCount
    /\ rateCalls' = Without(rateCalls, i)
    /\ rateReturned' = rateReturned \cup {Returned(rateCalls[i].key, 0, TRUE, FailOpen)}
    /\ UNCHANGED <<redisUrl, today, rateTtl, rateHanded, rateBegun>>
    /\ UNCHANGED notRate

\* await r.expire(key, 86400) of the call that counted 1, and its return.
RateExpire(i) ==
    /\ i \in 1..Len(rateCalls)
    /\ rateCalls[i].pc = "expire"
    /\ rateTtl' = rateTtl \cup {rateCalls[i].key}
    /\ rateCalls' = Without(rateCalls, i)
    /\ rateReturned' = rateReturned \cup
                          {Returned(rateCalls[i].key, rateCalls[i].count, FALSE,
                                    RateResult(rateCalls[i].count))}
    /\ UNCHANGED <<redisUrl, today, rateCount, rateHanded, rateBegun>>
    /\ UNCHANGED notRate

\* r.expire rejects: the catch block.
RateExpireFails(i) ==
    /\ i \in 1..Len(rateCalls)
    /\ rateCalls[i].pc = "expire"
    /\ RateFailures < MaxRateFailures
    /\ rateCalls' = Without(rateCalls, i)
    /\ rateReturned' = rateReturned \cup
                          {Returned(rateCalls[i].key, rateCalls[i].count, TRUE, FailOpen)}
    /\ UNCHANGED <<redisUrl, today, rateCount, rateTtl, rateHanded, rateBegun>>
    /\ UNCHANGED notRate

\* Midnight UTC.
Midnight ==
    /\ today + 1 \in RateDays
    /\ today' = today + 1
    /\ UNCHANGED <<redisUrl, rateCount, rateTtl, rateCalls, rateReturned, rateHanded,
                   rateBegun>>
    /\ UNCHANGED notRate

\* Redis drops a key whose expiry has passed.
RateKeyExpires(key) ==
    /\ key \in rateTtl
    /\ key[1] < today
    /\ \A i \in 1..Len(rateCalls) : rateCalls[i].key # key
    /\ rateTtl' = rateTtl \ {key}
    /\ rateCount' = [k \in DOMAIN rateCount \ {key} |-> rateCount[k]]
    /\ UNCHANGED <<redisUrl, today, rateCalls, rateReturned, rateHanded, rateBegun>>
    /\ UNCHANGED notRate

RateNext ==
    \/ \E ip \in RateIps : CheckRateLimit(ip)
    \/ \E i \in 1..MaxRateInFlight : RateIncr(i)
    \/ \E i \in 1..MaxRateInFlight, executed \in BOOLEAN : RateIncrFails(i, executed)
    \/ \E i \in 1..MaxRateInFlight : RateExpire(i)
    \/ \E i \in 1..MaxRateInFlight : RateExpireFails(i)
    \/ Midnight
    \/ \E key \in RateKeys : RateKeyExpires(key)

(***************************************************************************)
(* The org cache: getCached and setCached (src/src/lib/cache.ts).  Calls   *)
(* run concurrently: a call is suspended at each await, and Redis executes *)
(* one command, or the commands of one pipeline, at a time.  Orgs are      *)
(* numbered.  The cache starts one short of full, as MAX_ORGS - 1 calls of *)
(* setCached for different orgs leave it.                                  *)
(***************************************************************************)
MAX_ORGS == 100

MaxCacheCalls == 3

\* The orgs of the calls: the two least recently used ones and two new ones.
CacheOrgs == {1, 2, MAX_ORGS, MAX_ORGS + 1}

CacheIdle ==
    /\ cacheData = {}
    /\ access = <<>>
    /\ now = 1
    /\ cacheCalls = <<>>
    /\ cacheBegun = 0

\* The cache after setCached has run for the orgs 1 .. MAX_ORGS - 1 in turn.
CacheInit ==
    /\ cacheData = 1..(MAX_ORGS - 1)
    /\ access = [o \in 1..(MAX_ORGS - 1) |-> o]
    /\ now = MAX_ORGS
    /\ cacheCalls = <<>>
    /\ cacheBegun = 0

\* ZRANGE key 0 n-1: the n members with the lowest scores.
RECURSIVE ZRange(_, _)
ZRange(members, n) ==
    IF n <= 0 \/ members = {} THEN {}
    ELSE LET first == CHOOSE o \in members : \A p \in members : access[o] <= access[p]
         IN  {first} \cup ZRange(members \ {first}, n - 1)

\* ZADD key score member.
ZAdd(score, member) ==
    [o \in DOMAIN access \cup {member} |-> IF o = member THEN score ELSE access[o]]

\* ZREM key members.
ZRem(members) == [o \in DOMAIN access \ members |-> access[o]]

\* getCached(org) begins: the client, and GET is sent.
BeginGetCached(org) ==
    /\ cacheBegun < MaxCacheCalls
    /\ cacheBegun' = cacheBegun + 1
    /\ cacheCalls' = Append(cacheCalls, [op |-> "get", org |-> org, pc |-> "get",
                                          count |-> 0, victims |-> {}])
    /\ UNCHANGED <<cacheData, access, now>>
    /\ UNCHANGED notCache

\* const raw = await r.get(...); if (!raw) return null.
GetCachedGet(i) ==
    /\ i \in 1..Len(cacheCalls)
    /\ cacheCalls[i].pc = "get"
    /\ cacheCalls' = IF cacheCalls[i].org \in cacheData
                     THEN [cacheCalls EXCEPT ![i].pc = "touch"]
                     ELSE Without(cacheCalls, i)
    /\ UNCHANGED <<cacheData, access, now, cacheBegun>>
    /\ UNCHANGED notCache

\* await r.zadd(ACCESS_SET, Date.now(), org), and the return of the hit.
GetCachedTouch(i) ==
    /\ i \in 1..Len(cacheCalls)
    /\ cacheCalls[i].pc = "touch"
    /\ access' = ZAdd(now, cacheCalls[i].org)
    /\ now' = now + 1
    /\ cacheCalls' = Without(cacheCalls, i)
    /\ UNCHANGED <<cacheData, cacheBegun>>
    /\ UNCHANGED notCache

\* setCached(org, data) begins: the client, and ZCARD is sent.
BeginSetCached(org) ==
    /\ cacheBegun < MaxCacheCalls
    /\ cacheBegun' = cacheBegun + 1
    /\ cacheCalls' = Append(cacheCalls, [op |-> "set", org |-> org, pc |-> "zcard",
                                          count |-> 0, victims |-> {}])
    /\ UNCHANGED <<cacheData, access, now>>
    /\ UNCHANGED notCache

\* const count = await r.zcard(ACCESS_SET), and the test of the count.
SetCachedZcard(i) ==
    /\ i \in 1..Len(cacheCalls)
    /\ cacheCalls[i].pc = "zcard"
    /\ LET count == Cardinality(DOMAIN access)
       IN  cacheCalls' = [cacheCalls EXCEPT ![i].count = count,
                                            ![i].pc = IF count >= MAX_ORGS THEN "zrange"
                                                      ELSE "store"]
    /\ UNCHANGED <<cacheData, access, now, cacheBegun>>
    /\ UNCHANGED notCache

\* const victims = await r.zrange(ACCESS_SET, 0, toEvict - 1).
SetCachedZrange(i) ==
    /\ i \in 1..Len(cacheCalls)
    /\ cacheCalls[i].pc = "zrange"
    /\ LET toEvict == cacheCalls[i].count - MAX_ORGS + 1
           victims == ZRange(DOMAIN access, toEvict)
       IN  cacheCalls' = [cacheCalls EXCEPT ![i].victims = victims,
                                            ![i].pc = IF victims # {} THEN "evict"
                                                      ELSE "store"]
    /\ UNCHANGED <<cacheData, access, now, cacheBegun>>
    /\ UNCHANGED notCache

\* The pipeline that deletes the victims' keys and removes them from the set.
SetCachedEvict(i) ==
    /\ i \in 1..Len(cacheCalls)
    /\ cacheCalls[i].pc = "evict"
    /\ cacheData' = cacheData \ cacheCalls[i].victims
    /\ access' = ZRem(cacheCalls[i].victims)
    /\ cacheCalls' = [cacheCalls EXCEPT ![i].pc = "store"]
    /\ UNCHANGED <<now, cacheBegun>>
    /\ UNCHANGED notCache

\* The pipeline that stores the data and records the access timestamp.
SetCachedStore(i) ==
    /\ i \in 1..Len(cacheCalls)
    /\ cacheCalls[i].pc = "store"
    /\ cacheData' = cacheData \cup {cacheCalls[i].org}
    /\ access' = ZAdd(now, cacheCalls[i].org)
    /\ now' = now + 1
    /\ cacheCalls' = Without(cacheCalls, i)
    /\ UNCHANGED cacheBegun
    /\ UNCHANGED notCache

CacheNext ==
    \/ \E org \in CacheOrgs : BeginGetCached(org)
    \/ \E i \in 1..MaxCacheCalls : GetCachedGet(i)
    \/ \E i \in 1..MaxCacheCalls : GetCachedTouch(i)
    \/ \E org \in CacheOrgs : BeginSetCached(org)
    \/ \E i \in 1..MaxCacheCalls : SetCachedZcard(i)
    \/ \E i \in 1..MaxCacheCalls : SetCachedZrange(i)
    \/ \E i \in 1..MaxCacheCalls : SetCachedEvict(i)
    \/ \E i \in 1..MaxCacheCalls : SetCachedStore(i)

(***************************************************************************)
(* The org route: GET of src/src/app/api/org/[org]/route.ts.  Requests are *)
(* handled concurrently; a request is suspended at each await.  getCached, *)
(* checkRateLimit and setCached are taken as single steps here (their own  *)
(* steps are modelled above); each may meet a Redis that fails.  The       *)
(* scrape of the first page, the batch scrape and its polling are one      *)
(* upstream step with the outcomes that decide the response.               *)
(***************************************************************************)
IsAlnum(c) == c \in 48..57 \/ c \in 65..90 \/ c \in 97..122

\* GITHUB_ORG_RE.test(org):  /^[a-zA-Z0-9]([a-zA-Z0-9-]{0,37}[a-zA-Z0-9])?$/
GITHUB_ORG_RE(org) ==
    /\ Len(org) >= 1
    /\ Len(org) <= 39
    /\ IsAlnum(org[1])
    /\ IsAlnum(org[Len(org)])
    /\ \A i \in 1..Len(org) : IsAlnum(org[i]) \/ org[i] = 45

NameTrailingHyphen == <<97, 45>>                    \* "a-"

\* A bug: the rate limit is checked before the cache is looked up.
RouteAfterLimitFirst(pc, ok) ==
    CASE pc = "validate" -> IF ok THEN "apiKey" ELSE "invalidName"
      [] pc = "apiKey" -> IF ~ok THEN "noKey"
                          ELSE IF rateLimitBypass THEN "getCached" ELSE "checkRateLimit"
      [] pc = "checkRateLimit" -> IF ok THEN "getCached" ELSE "limited"
      [] pc = "getCached" -> IF ok THEN "cached" ELSE "upstream"

\* Where GET goes on after a step that succeeded (ok) or not: the name test,
\* the API key test, the cache lookup (ok is a hit), the rate limit (ok is
\* allowed).
RouteAfter(pc, ok) ==
    CASE pc = "validate" -> IF ok THEN "apiKey" ELSE "invalidName"
      [] pc = "apiKey" -> IF ok THEN "getCached" ELSE "noKey"
      [] pc = "getCached" -> IF ok THEN "cached"
                             ELSE IF rateLimitBypass THEN "upstream" ELSE "checkRateLimit"
      [] pc = "checkRateLimit" -> IF ok THEN "upstream" ELSE "limited"

\* The status of the response GET returns at a place.
StatusAt(pc) ==
    CASE pc = "invalidName" -> 400
      [] pc = "noKey" -> 400
      [] pc = "cached" -> 200
      [] pc = "limited" -> 429
      [] pc = "stored" -> 200
      [] pc = "page1Only" -> 200
      [] pc = "scrapeFailed" -> 400
      [] pc = "notFound" -> 404
      [] pc = "threw" -> 500

Responding == {"invalidName", "noKey", "cached", "limited", "stored", "page1Only",
               "scrapeFailed", "notFound", "threw"}

\* What the upstream step can come to: the result is cached and returned, the
\* batch did not start and page 1 is returned, the scrape reports a failure,
\* the org has no repositories, fetch throws.
UpstreamOutcomes == {"stored", "page1Only", "scrapeFailed", "notFound", "threw"}

MaxRequests == 4
MaxRouteInFlight == 2
RouteOrgs == {NameA, NameTrailingHyphen}
RouteIps == {1}

RouteIdle ==
    /\ rateLimitBypass = FALSE
    /\ routeCached = {}
    /\ routeCount = [ip \in RouteIps |-> 0]
    /\ requests = <<>>
    /\ responses = {}
    /\ routeBegun = 0

\* The counters are where earlier requests of the day have left them.
RouteInit ==
    /\ rateLimitBypass \in BOOLEAN
    /\ routeCached = {}
    /\ routeCount \in [RouteIps -> {0, DAILY_LIMIT - 1}]
    /\ requests = <<>>
    /\ responses = {}
    /\ routeBegun = 0

\* The request moves to a place; at a place that responds it is answered.
RouteGoes(i, pc, called) ==
    LET r == [requests[i] EXCEPT !.pc = pc, !.calls = @ \o called]
    IN  IF pc \in Responding
        THEN /\ requests' = Without(requests, i)
             /\ responses' = responses \cup {[r EXCEPT !.status = StatusAt(pc)]}
        ELSE /\ requests' = [requests EXCEPT ![i] = r]
             /\ UNCHANGED responses

\* A request comes in: const { org } = await params.
RouteGet(org, hasKey, ip) ==
    /\ routeBegun < MaxRequests
    /\ Len(requests) < MaxRouteInFlight
    /\ routeBegun' = routeBegun + 1
    /\ requests' = Append(requests, [org |-> org, hasKey |-> hasKey, ip |-> ip,
                                     pc |-> "validate", calls |-> <<>>, status |-> 0])
    /\ UNCHANGED <<rateLimitBypass, routeCached, routeCount, responses>>
    /\ UNCHANGED notRoute

\* if (!GITHUB_ORG_RE.test(org)) return 400; if (!apiKey) return 400; then
\* getCached is called and awaited.
RouteValidate(i) ==
    /\ i \in 1..Len(requests)
    /\ requests[i].pc = "validate"
    /\ LET p1 == RouteAfter("validate", GITHUB_ORG_RE(requests[i].org))
           p2 == IF p1 = "apiKey" THEN RouteAfter("apiKey", requests[i].hasKey) ELSE p1
       IN  RouteGoes(i, p2, <<"validate">>)
    /\ UNCHANGED <<rateLimitBypass, routeCached, routeCount, routeBegun>>
    /\ UNCHANGED notRoute

\* const cached = await getCached(org): a hit is returned; failed is a Redis
\* that fails, which getCached turns into null.
RouteGetCached(i, failed) ==
    /\ i \in 1..Len(requests)
    /\ requests[i].pc = "getCached"
    /\ RouteGoes(i, RouteAfter("getCached", requests[i].org \in routeCached /\ ~failed),
                 <<"getCached">>)
    /\ UNCHANGED <<rateLimitBypass, routeCached, routeCount, routeBegun>>
    /\ UNCHANGED notRoute

\* const rl = await checkRateLimit(ip): 429 if not allowed; failed is a Redis
\* that fails, which checkRateLimit turns into allowed.
RouteCheckRateLimit(i, failed) ==
    /\ i \in 1..Len(requests)
    /\ requests[i].pc = "checkRateLimit"
    /\ LET ip == requests[i].ip
           rl == IF failed THEN FailOpen ELSE RateResult(routeCount[ip] + 1)
       IN  /\ routeCount' = IF failed THEN routeCount
                            ELSE [routeCount EXCEPT ![ip] = @ + 1]
           /\ RouteGoes(i, RouteAfter("checkRateLimit", rl.allowed), <<"checkRateLimit">>)
    /\ UNCHANGED <<rateLimitBypass, routeCached, routeBegun>>
    /\ UNCHANGED notRoute

\* The try block: the upstream scrapes, then setCached(org, result) is started
\* and the result returned, unless the block returned or threw before.
RouteUpstream(i, outcome, failed) ==
    /\ i \in 1..Len(requests)
    /\ requests[i].pc = "upstream"
    /\ RouteGoes(i, outcome,
                 IF outcome = "stored" THEN <<"upstream", "setCached">> ELSE <<"upstream">>)
    /\ routeCached' = IF outcome = "stored" /\ ~failed
                      THEN routeCached \cup {requests[i].org} ELSE routeCached
    /\ UNCHANGED <<rateLimitBypass, routeCount, routeBegun>>
    /\ UNCHANGED notRoute

RouteNext ==
    \/ \E org \in RouteOrgs, hasKey \in BOOLEAN, ip \in RouteIps : RouteGet(org, hasKey, ip)
    \/ \E i \in 1..MaxRouteInFlight : RouteValidate(i)
    \/ \E i \in 1..MaxRouteInFlight, failed \in BOOLEAN : RouteGetCached(i, failed)
    \/ \E i \in 1..MaxRouteInFlight, failed \in BOOLEAN : RouteCheckRateLimit(i, failed)
    \/ \E i \in 1..MaxRouteInFlight, outcome \in UpstreamOutcomes, failed \in BOOLEAN :
          RouteUpstream(i, outcome, failed)

(***************************************************************************)
(* CityPage (src/src/app/city/[org]/page.tsx): one mounted instance whose  *)
(* org parameter changes.  A render with a new org is followed by its two  *)
(* effects, in the order of the source and without anything in between;    *)
(* a call of fetchAll is suspended at each await and goes on when its      *)
(* response arrives.  A value of the data or siteData state is written as  *)
(* the org it was fetched for.                                             *)
(***************************************************************************)
Null == [null |-> TRUE]

PageOrgs == {NameA, NameB}

MaxNavigations == 2

PageIdle ==
    /\ pageMounted = FALSE
    /\ pageOrg = NameA
    /\ effectsPending = FALSE
    /\ data = Null
    /\ siteData = Null
    /\ loading = TRUE
    /\ error = Null
    /\ fetches = <<>>
    /\ navigations = 0

\* The first render: the initial values of the useState calls.
MountPage(o) ==
    /\ ~pageMounted
    /\ pageMounted' = TRUE
    /\ pageOrg' = o
    /\ effectsPending' = TRUE
    /\ data' = Null
    /\ siteData' = Null
    /\ loading' = TRUE
    /\ error' = Null
    /\ UNCHANGED <<fetches, navigations>>
    /\ UNCHANGED notPage

\* params.org changes and the page renders again, with the state it has.
ChangeOrg(o) ==
    /\ pageMounted
    /\ ~effectsPending
    /\ o # pageOrg
    /\ navigations < MaxNavigations
    /\ navigations' = navigations + 1
    /\ pageOrg' = o
    /\ effectsPending' = TRUE
    /\ UNCHANGED <<pageMounted, data, siteData, loading, error, fetches>>
    /\ UNCHANGED notPage

\* The effects of [org]: the reset, then fetchAll up to its first await.
\* customUrl is sessionStorage's website_url entry of the org.
RunEffects(customUrl) ==
    /\ pageMounted
    /\ effectsPending
    /\ effectsPending' = FALSE
    /\ data' = Null
    /\ siteData' = Null
    /\ error' = Null
    /\ loading' = TRUE
    /\ fetches' = Append(fetches, [org |-> pageOrg, customUrl |-> customUrl, pc |-> "org"])
    /\ UNCHANGED <<pageMounted, pageOrg, navigations>>
    /\ UNCHANGED notPage

\* The response of /api/org arrives and is ok: setData, setSiteData if the
\* response has site data, then the scrape of the custom URL or the finally
\* block.
OrgResponse(i, repos, bundled) ==
    /\ pageMounted
    /\ ~effectsPending
    /\ i \in 1..Len(fetches)
    /\ fetches[i].pc = "org"
    /\ data' = [org |-> fetches[i].org, repos |-> repos]
    /\ siteData' = IF bundled THEN [org |-> fetches[i].org] ELSE siteData
    /\ IF fetches[i].customUrl
       THEN /\ fetches' = [fetches EXCEPT ![i].pc = "site"]
            /\ UNCHANGED loading
       ELSE /\ fetches' = Without(fetches, i)
            /\ loading' = FALSE
    /\ UNCHANGED <<pageMounted, pageOrg, effectsPending, error, navigations>>
    /\ UNCHANGED notPage

\* The fetch of /api/org throws or its response is not ok: the catch block
\* and the finally block.
OrgResponseFails(i) ==
    /\ pageMounted
    /\ ~effectsPending
    /\ i \in 1..Len(fetches)
    /\ fetches[i].pc = "org"
    /\ error' = [org |-> fetches[i].org]
    /\ loading' = FALSE
    /\ fetches' = Without(fetches, i)
    /\ UNCHANGED <<pageMounted, pageOrg, effectsPending, data, siteData, navigations>>
    /\ UNCHANGED notPage

\* The response of /api/scrape-site arrives, ok or not, or the fetch throws;
\* then the finally block.
SiteResponse(i, ok) ==
    /\ pageMounted
    /\ ~effectsPending
    /\ i \in 1..Len(fetches)
    /\ fetches[i].pc = "site"
    /\ siteData' = IF ok THEN [org |-> fetches[i].org] ELSE siteData
    /\ loading' = FALSE
    /\ fetches' = Without(fetches, i)
    /\ UNCHANGED <<pageMounted, pageOrg, effectsPending, data, error, navigations>>
    /\ UNCHANGED notPage

\* What the page renders: the loading text, the error, the text for no
\* repositories, or the city.
Renders ==
    IF loading THEN "loading"
    ELSE IF error # Null THEN "error"
    ELSE IF data = Null \/ data.repos = 0 THEN "empty"
    ELSE "city"

PageNext ==
    \/ \E o \in PageOrgs : MountPage(o)
    \/ \E o \in PageOrgs : ChangeOrg(o)
    \/ \E customUrl \in BOOLEAN : RunEffects(customUrl)
    \/ \E i \in 1..(MaxNavigations + 1), repos \in {0, 2}, bundled \in BOOLEAN :
          OrgResponse(i, repos, bundled)
    \/ \E i \in 1..(MaxNavigations + 1) : OrgResponseFails(i)
    \/ \E i \in 1..(MaxNavigations + 1), ok \in BOOLEAN : SiteResponse(i, ok)

(***************************************************************************)
(* Home, the landing form (src/unnamed/part_003, its second listing).  A   *)
(* URL is the pair of whether it begins with a scheme and the text after   *)
(* the scheme.  navigate() leaves the page, which unmounts Home.           *)
(***************************************************************************)
NoUrl == [scheme |-> FALSE, rest |-> ""]
NoLookup == <<>>
NoPush == <<>>
NoError == ""

\* String.prototype.trim on a sequence of code units: spaces are removed
\* from both ends.
RECURSIVE Trim(_)
Trim(s) ==
    IF s = <<>> THEN s
    ELSE IF Head(s) = 32 THEN Trim(Tail(s))
    ELSE IF s[Len(s)] = 32 THEN Trim(SubSeq(s, 1, Len(s) - 1))
    ELSE s

\* normalizeUrl: "" stays "", a text without a scheme gets "https://".
normalizeUrl(raw) ==
    IF raw = NoUrl THEN NoUrl ELSE [scheme |-> TRUE, rest |-> raw.rest]

\* new URL(url) does not throw: there is a host after the scheme.
ParsesAsUrl(url) == url.scheme /\ url.rest # ""

hasFirecrawlAccess == envHasKey \/ apiKeyConfirmed

pendingBlogConfirm == blogSuggested /\ ~blogConfirmed

readyToBuild ==
    /\ ~pendingBlogConfirm
    /\ (~hasFirecrawlAccess \/ websiteUrl # NoUrl \/ blogSuggested)

\* disabled={searching || pendingBlogConfirm}
SubmitDisabled == searching \/ pendingBlogConfirm

HomeOrgs == {SeedEmpty, NameA, <<32>> \o NameB, NameTrailingHyphen}
HomeUrls == {NoUrl, [scheme |-> FALSE, rest |-> "firecrawl.dev"], [scheme |-> TRUE, rest |-> ""]}
HomeKeys == {"", "fc-key"}
ProfileBlogs == {NoUrl, [scheme |-> FALSE, rest |-> "blog.example"]}

HomeIdle ==
    /\ homeMounted = FALSE
    /\ formOrg = SeedEmpty
    /\ websiteUrl = NoUrl
    /\ apiKey = ""
    /\ apiKeyConfirmed = FALSE
    /\ envHasKey = FALSE
    /\ keyProbe = FALSE
    /\ validationError = NoError
    /\ searching = FALSE
    /\ blogSuggested = FALSE
    /\ blogConfirmed = FALSE
    /\ lookup = NoLookup
    /\ awaiting = FALSE
    /\ pushed = NoPush

\* Home is mounted, every state initial, and its effect has sent the fetch
\* of /api/has-firecrawl-key.
MountHome ==
    /\ ~homeMounted
    /\ homeMounted' = TRUE
    /\ keyProbe' = TRUE
    /\ UNCHANGED <<formOrg, websiteUrl, apiKey, apiKeyConfirmed, envHasKey,
                   validationError, searching, blogSuggested, blogConfirmed,
                   lookup, awaiting, pushed>>
    /\ UNCHANGED notHome

\* .then((data) => setEnvHasKey(data.hasKey)).catch(() => {})
HasKeyResponse(ok, hasKey) ==
    /\ homeMounted /\ keyProbe
    /\ keyProbe' = FALSE
    /\ envHasKey' = IF ok THEN hasKey ELSE envHasKey
    /\ UNCHANGED <<homeMounted, formOrg, websiteUrl, apiKey, apiKeyConfirmed,
                   validationError, searching, blogSuggested, blogConfirmed,
                   lookup, awaiting, pushed>>
    /\ UNCHANGED notHome

\* onChange of the API key input, which is rendered when !envHasKey.
EditApiKey(value) ==
    /\ homeMounted /\ ~envHasKey
    /\ apiKey' = value
    /\ apiKeyConfirmed' = FALSE
    /\ UNCHANGED <<homeMounted, formOrg, websiteUrl, envHasKey, keyProbe,
                   validationError, searching, blogSuggested, blogConfirmed,
                   lookup, awaiting, pushed>>
    /\ UNCHANGED notHome

\* handleConfirmKey, from the Confirm button.
ConfirmKey ==
    /\ homeMounted /\ ~envHasKey
    /\ apiKey # "" /\ ~apiKeyConfirmed
    /\ apiKeyConfirmed' = TRUE
    /\ UNCHANGED <<homeMounted, formOrg, websiteUrl, apiKey, envHasKey, keyProbe,
                   validationError, searching, blogSuggested, blogConfirmed,
                   lookup, awaiting, pushed>>
    /\ UNCHANGED notHome

\* onChange of the website input, which is rendered when hasFirecrawlAccess.
\* Emptying the field withdraws a suggestion.
EditWebsiteUrl(value) ==
    /\ homeMounted /\ hasFirecrawlAccess
    /\ websiteUrl' = value
    /\ blogSuggested' = IF value = NoUrl THEN FALSE ELSE blogSuggested
    /\ awaiting' = IF value = NoUrl THEN FALSE ELSE awaiting
    /\ UNCHANGED <<homeMounted, formOrg, apiKey, apiKeyConfirmed, envHasKey,
                   keyProbe, validationError, searching, blogConfirmed, lookup,
                   pushed>>
    /\ UNCHANGED notHome

\* handleOrgChange: the flags and the URL it leaves.
handleOrgChange(value) ==
    IF blogSuggested
    THEN [blogSuggested |-> FALSE, blogConfirmed |-> FALSE, websiteUrl |-> NoUrl]
    ELSE [blogSuggested |-> blogSuggested, blogConfirmed |-> blogConfirmed,
          websiteUrl |-> websiteUrl]

\* onChange of the org input.
ChangeOrgInput(value) ==
    /\ homeMounted
    /\ value # formOrg
    /\ formOrg' = value
    /\ blogSuggested' = handleOrgChange(value).blogSuggested
    /\ blogConfirmed' = handleOrgChange(value).blogConfirmed
    /\ websiteUrl' = handleOrgChange(value).websiteUrl
    /\ awaiting' = FALSE
    /\ UNCHANGED <<homeMounted, apiKey, apiKeyConfirmed, envHasKey, keyProbe,
                   validationError, searching, lookup, pushed>>
    /\ UNCHANGED notHome

\* The Yes and No buttons are rendered when
\* hasFirecrawlAccess && blogSuggested && !blogConfirmed && websiteUrl.
AnswerShown ==
    /\ homeMounted /\ hasFirecrawlAccess
    /\ blogSuggested /\ ~blogConfirmed /\ websiteUrl # NoUrl

ClickYes ==
    /\ AnswerShown
    /\ blogConfirmed' = TRUE
    /\ awaiting' = FALSE
    /\ UNCHANGED <<homeMounted, formOrg, websiteUrl, apiKey, apiKeyConfirmed,
                   envHasKey, keyProbe, validationError, searching,
                   blogSuggested, lookup, pushed>>
    /\ UNCHANGED notHome

ClickNo ==
    /\ AnswerShown
    /\ websiteUrl' = NoUrl
    /\ blogSuggested' = FALSE
    /\ blogConfirmed' = TRUE
    /\ awaiting' = FALSE
    /\ UNCHANGED <<homeMounted, formOrg, apiKey, apiKeyConfirmed, envHasKey,
                   keyProbe, validationError, searching, lookup, pushed>>
    /\ UNCHANGED notHome

\* navigate(trimmedOrg) with the apiKey and websiteUrl of its closure: the
\* route is pushed and Home, with its state, is gone.
Navigate(trimmedOrg, url) ==
    /\ pushed' = [org |-> trimmedOrg, websiteUrl |-> normalizeUrl(url)]
    /\ homeMounted' = FALSE
    /\ formOrg' = SeedEmpty
    /\ websiteUrl' = NoUrl
    /\ apiKey' = ""
    /\ apiKeyConfirmed' = FALSE
    /\ envHasKey' = FALSE
    /\ keyProbe' = FALSE
    /\ validationError' = NoError
    /\ searching' = FALSE
    /\ blogSuggested' = FALSE
    /\ blogConfirmed' = FALSE
    /\ lookup' = NoLookup
    /\ awaiting' = FALSE

\* handleSubmit up to its await, from the submit button when it is enabled.
Submit ==
    LET trimmed == Trim(formOrg)
        url == normalizeUrl(websiteUrl)
    IN  /\ homeMounted /\ ~SubmitDisabled
        /\ trimmed # <<>>
        /\ IF ~GITHUB_ORG_RE(trimmed)
           THEN /\ validationError' = "Invalid name."
                /\ UNCHANGED <<homeMounted, formOrg, websiteUrl, apiKey,
                               apiKeyConfirmed, envHasKey, keyProbe, searching,
                               blogSuggested, blogConfirmed, lookup, awaiting,
                               pushed>>
           ELSE IF url # NoUrl /\ ~ParsesAsUrl(url)
           THEN /\ validationError' = "Invalid website URL."
                /\ UNCHANGED <<homeMounted, formOrg, websiteUrl, apiKey,
                               apiKeyConfirmed, envHasKey, keyProbe, searching,
                               blogSuggested, blogConfirmed, lookup, awaiting,
                               pushed>>
           ELSE IF readyToBuild
           THEN Navigate(trimmed, websiteUrl)
           ELSE /\ validationError' = NoError
                /\ searching' = TRUE
                /\ lookup' = [org |-> trimmed, websiteUrl |-> websiteUrl]
                /\ UNCHANGED <<homeMounted, formOrg, websiteUrl, apiKey,
                               apiKeyConfirmed, envHasKey, keyProbe,
                               blogSuggested, blogConfirmed, awaiting, pushed>>
        /\ UNCHANGED notHome

\* handleSubmit after its await: the profile request failed (the catch
\* block), was answered with an error status, or returned a profile whose
\* blog is empty or a URL.
LookupResponse(outcome, blog) ==
    /\ homeMounted /\ lookup # NoLookup
    /\ CASE outcome = "throws" -> Navigate(lookup.org, lookup.websiteUrl)
         [] outcome = "notOk" ->
              /\ validationError' = "Not found on GitHub."
              /\ searching' = FALSE
              /\ lookup' = NoLookup
              /\ UNCHANGED <<homeMounted, formOrg, websiteUrl, apiKey,
                             apiKeyConfirmed, envHasKey, keyProbe, blogSuggested,
                             blogConfirmed, awaiting, pushed>>
         [] outcome = "ok" /\ blog = NoUrl -> Navigate(lookup.org, lookup.websiteUrl)
         [] outcome = "ok" /\ blog # NoUrl ->
              /\ websiteUrl' = normalizeUrl(blog)
              /\ blogSuggested' = TRUE
              /\ awaiting' = TRUE
              /\ searching' = FALSE
              /\ lookup' = NoLookup
              /\ UNCHANGED <<homeMounted, formOrg, apiKey, apiKeyConfirmed,
                             envHasKey, keyProbe, validationError, blogConfirmed,
                             pushed>>
    /\ UNCHANGED notHome

HomeNext ==
    \/ MountHome
    \/ \E ok \in BOOLEAN, hasKey \in BOOLEAN : HasKeyResponse(ok, hasKey)
    \/ \E value \in HomeKeys : EditApiKey(value)
    \/ ConfirmKey
    \/ \E value \in HomeUrls : EditWebsiteUrl(value)
    \/ \E value \in HomeOrgs : ChangeOrgInput(value)
    \/ ClickYes
    \/ ClickNo
    \/ Submit
    \/ \E outcome \in {"throws", "notOk", "ok"}, blog \in ProfileBlogs :
          LookupResponse(outcome, blog)

(***************************************************************************)
(* Specifications: one per component, the other components at rest.        *)
(***************************************************************************)
InitRng == RngIdle /\ ScaleIdle /\ SpiralIdle /\ LayoutIdle /\ TileIdle /\ SceneIdle
    /\ RoadsIdle /\ CityIdle /\ RecordIdle /\ GroundIdle /\ RateIdle
    /\ CacheIdle /\ RouteIdle /\ PageIdle /\ HomeIdle
InitScale == ScaleInit /\ RngIdle /\ SpiralIdle /\ LayoutIdle /\ TileIdle /\ SceneIdle
    /\ RoadsIdle /\ CityIdle /\ RecordIdle /\ GroundIdle /\ RateIdle
    /\ CacheIdle /\ RouteIdle /\ PageIdle /\ HomeIdle
InitSpiral == SpiralIdle /\ RngIdle /\ ScaleIdle /\ LayoutIdle /\ TileIdle /\ SceneIdle
    /\ RoadsIdle /\ CityIdle /\ RecordIdle /\ GroundIdle /\ RateIdle
    /\ CacheIdle /\ RouteIdle /\ PageIdle /\ HomeIdle
InitLayout == LayoutIdle /\ RngIdle /\ ScaleIdle /\ SpiralIdle /\ TileIdle /\ SceneIdle
    /\ RoadsIdle /\ CityIdle /\ RecordIdle /\ GroundIdle /\ RateIdle
    /\ CacheIdle /\ RouteIdle /\ PageIdle /\ HomeIdle
InitTile == TileIdle /\ RngIdle /\ ScaleIdle /\ SpiralIdle /\ LayoutIdle /\ SceneIdle
    /\ RoadsIdle /\ CityIdle /\ RecordIdle /\ GroundIdle /\ RateIdle
    /\ CacheIdle /\ RouteIdle /\ PageIdle /\ HomeIdle
InitRoads == RoadsIdle /\ RngIdle /\ ScaleIdle /\ SpiralIdle /\ LayoutIdle /\ TileIdle
    /\ SceneIdle /\ CityIdle /\ RecordIdle /\ GroundIdle /\ RateIdle
    /\ CacheIdle /\ RouteIdle /\ PageIdle /\ HomeIdle
InitCity == CityIdle /\ SceneIdle /\ RngIdle /\ ScaleIdle /\ SpiralIdle /\ LayoutIdle
    /\ TileIdle /\ RoadsIdle /\ RecordIdle /\ GroundIdle /\ RateIdle
    /\ CacheIdle /\ RouteIdle /\ PageIdle /\ HomeIdle
InitRecord == RecordInit /\ RngIdle /\ ScaleIdle /\ SpiralIdle /\ LayoutIdle /\ TileIdle
    /\ SceneIdle /\ RoadsIdle /\ CityIdle /\ GroundIdle /\ RateIdle
    /\ CacheIdle /\ RouteIdle /\ PageIdle /\ HomeIdle
InitScene == SceneInit /\ RngIdle /\ ScaleIdle /\ SpiralIdle /\ LayoutIdle /\ TileIdle
    /\ RoadsIdle /\ CityIdle /\ RecordIdle /\ GroundIdle /\ RateIdle
    /\ CacheIdle /\ RouteIdle /\ PageIdle /\ HomeIdle
InitGround == GroundIdle /\ RngIdle /\ ScaleIdle /\ SpiralIdle /\ LayoutIdle /\ TileIdle
    /\ SceneIdle /\ RoadsIdle /\ CityIdle /\ RecordIdle /\ RateIdle
    /\ CacheIdle /\ RouteIdle /\ PageIdle /\ HomeIdle
InitRate == RateInit /\ RngIdle /\ ScaleIdle /\ SpiralIdle /\ LayoutIdle /\ TileIdle
    /\ SceneIdle /\ RoadsIdle /\ CityIdle /\ RecordIdle /\ GroundIdle
    /\ CacheIdle /\ RouteIdle /\ PageIdle /\ HomeIdle
InitCache == CacheInit /\ RngIdle /\ ScaleIdle /\ SpiralIdle /\ LayoutIdle /\ TileIdle
    /\ SceneIdle /\ RoadsIdle /\ CityIdle /\ RecordIdle /\ GroundIdle /\ RateIdle
    /\ RouteIdle /\ PageIdle /\ HomeIdle
InitRoute == RouteInit /\ RngIdle /\ ScaleIdle /\ SpiralIdle /\ LayoutIdle /\ TileIdle
    /\ SceneIdle /\ RoadsIdle /\ CityIdle /\ RecordIdle /\ GroundIdle /\ RateIdle
    /\ CacheIdle /\ PageIdle /\ HomeIdle
InitPage == PageIdle /\ RngIdle /\ ScaleIdle /\ SpiralIdle /\ LayoutIdle /\ TileIdle
    /\ SceneIdle /\ RoadsIdle /\ CityIdle /\ RecordIdle /\ GroundIdle /\ RateIdle
    /\ CacheIdle /\ RouteIdle /\ HomeIdle

InitHome == HomeIdle /\ RngIdle /\ ScaleIdle /\ SpiralIdle /\ LayoutIdle /\ TileIdle
    /\ SceneIdle /\ RoadsIdle /\ CityIdle /\ RecordIdle /\ GroundIdle /\ RateIdle
    /\ CacheIdle /\ RouteIdle /\ PageIdle

SpecRng == InitRng /\ [][RngNext]_vars
SpecScale == InitScale /\ [][ScaleNext]_vars
SpecSpiral == InitSpiral /\ [][SpiralNext]_vars
SpecLayout == InitLayout /\ [][LayoutNext]_vars
SpecTile == InitTile /\ [][TileNext]_vars
SpecScene == InitScene /\ [][SceneNext]_vars
SpecRoads == InitRoads /\ [][RoadsNext]_vars
SpecCity == InitCity /\ [][CityNext]_vars
SpecRecord == InitRecord /\ [][RecordNext]_vars
SpecGround == InitGround /\ [][GroundNext]_vars
SpecRate == InitRate /\ [][RateNext]_vars
SpecCache == InitCache /\ [][CacheNext]_vars
SpecRoute == InitRoute /\ [][RouteNext]_vars
SpecPage == InitPage /\ [][PageNext]_vars
SpecHome == InitHome /\ [][HomeNext]_vars

\* The scene of one repository list under frames that keep coming: while the
\* scene is mounted the render loop of the canvas runs every useFrame
\* callback on each animation frame.
ConvergeLists ==
    {<<[name |-> NameA, stars |-> 10000], [name |-> NameB, stars |-> 0]>>}

ConvergeNext ==
    \/ \E repos \in ConvergeLists : MountCity(repos)
    \/ UnmountCity
    \/ \E i \in 1..Len(buildings) : ClickBuilding(i)
    \/ PointerMissed
    \/ \E i \in 1..Len(buildings) : HoverBuilding(i)
    \/ UnhoverBuilding
    \/ \E delta \in CityDeltas : CityFrame(delta)

\* The rise animation under frames that keep coming, each with a positive
\* frame time.
RiseNext ==
    \/ \E i \in 1..Len(buildings) : RiseFrame(i)
    \/ \E delta \in FrameDeltas \ {0} : ClockFrame(delta)

FairScene == InitScene /\ [][RiseNext]_vars /\ WF_vars(RiseNext)

FairCity ==
    /\ InitCity /\ [][ConvergeNext]_vars
    /\ WF_vars(\E delta \in CityDeltas : CityFrame(delta))

\* C1: starsToHeight never decreases when the star count grows, and a
\* repository without stars gets the minimum height 8.
C1_HeightMonotonic ==
    heights # <<>> =>
        /\ (stars[1] < stars[2] => heights[1] <= heights[2])
        /\ (stars[1] = 0 => heights[1] = 80)

\* The formula of the segment that the code selects for s + 1, applied to s.
NextSegmentAt(s) ==
    IF s + 1 <= 5 THEN HeightLinear1(s)
    ELSE IF s + 1 <= 50 THEN HeightLinear2(s)
    ELSE IF s + 1 <= 500 THEN HeightLinear3(s)
    ELSE IF s + 1 <= 5000 THEN HeightSqrt(s)
    ELSE HeightLog(s)

\* C2: at the segment boundaries 5, 50, 500 and 5000 the segment ending
\* there and the segment starting after it give the same height.
C2_ContinuousAtBreakpoints ==
    (heights # <<>> /\ stars[1] \in {5, 50, 500, 5000}) =>
        heights[1] = NextSegmentAt(stars[1])


\* The first n values of a generator that alone draws from accumulator w.
RECURSIVE StreamFrom(_, _)
StreamFrom(w, n) ==
    IF n = 0 THEN <<>>
    ELSE <<DrawValue(NextH(w))>> \o StreamFrom(NextH(w), n - 1)

\* C6: every value a generator returns lies in [0,1): the numerator is an
\* unsigned 32-bit number (never negative) and the value is never exactly 1.
C6_DrawsBelowOne ==
    \A g \in GenIds : \A i \in 1..Len(outs[g]) :
        /\ outs[g][i][1] \in 0..65535 /\ outs[g][i][2] \in 0..65535
        /\ ~IsOne(outs[g][i])

\* C7: two generators made from the same seed have returned the same values
\* draw for draw, and every generator has returned the values its seed alone
\* determines, whatever calls of other generators came in between.
C7_SameSeedSameSequence ==
    /\ \A g1, g2 \in GenIds :
          (gens[g1].live /\ gens[g2].live /\ gens[g1].seed = gens[g2].seed) =>
              \A i \in 1..Len(outs[g1]) :
                  i <= Len(outs[g2]) => outs[g1][i] = outs[g2][i]
    /\ \A g \in GenIds :
          gens[g].live =>
              outs[g] = StreamFrom(SeedHash(gens[g].seed), Len(outs[g]))

\* Two generators of one non-constant seed, both drawn from, at different
\* positions of their streams.
C7_Witness ==
    /\ gens[1].live /\ gens[2].live
    /\ gens[1].seed = NameA /\ gens[2].seed = NameA
    /\ Len(outs[1]) = 3 /\ Len(outs[2]) = 2

\* C3: spiralCoord(0) is the origin, the cells of ranks 0..n are pairwise
\* distinct, and so are the world positions layoutCity gives the buildings.
C3_SpiralInjective ==
    /\ Len(placed) > 0 => placed[1].cell = <<0, 0>>
    /\ \A i, j \in 1..Len(placed) :
          i # j => (placed[i].cell # placed[j].cell /\ placed[i].pos # placed[j].pos)

\* The walk has closed more than four rings around the origin.
C3_Witness == Len(placed) >= 100 /\ placed[100].cell # placed[1].cell

\* C4: two calls of layoutCity with the same list return equal records,
\* whatever calls were made in between.
C4_LayoutDeterministic ==
    (firstLayout.called /\ lastLayout.called /\ firstLayout.repos = lastLayout.repos)
        => firstLayout.buildings = lastLayout.buildings

\* The same list of two repositories was laid out again after a call with
\* another repository.
C4_Witness ==
    /\ firstLayout.called /\ lastLayout.called
    /\ firstLayout.repos = lastLayout.repos
    /\ Len(lastLayout.repos) = 2
    /\ \E n \in DOMAIN rngHeap : \A i \in 1..2 : lastLayout.repos[i].name # n

\* The place of the repository of that name in the list.
IndexOfName(L, n) == CHOOSE i \in 1..Len(L) : L[i].name = n

\* C5: the buildings are the repositories in descending star order, ties in
\* input order; rank i stands at spiralCoord(i) * 80; with two or more
\* repositories the first is at cell (0,0) and the second at cell (1,0).
C5_SortedOntoSpiral ==
    lastLayout.called =>
        LET L == lastLayout.repos
            b == lastLayout.buildings
        IN  /\ Len(b) = Len(L)
            /\ {b[k].repo : k \in 1..Len(b)} = {L[i] : i \in 1..Len(L)}
            /\ \A k, l \in 1..Len(b) :
                  k < l =>
                    \/ b[k].repo.stars > b[l].repo.stars
                    \/ /\ b[k].repo.stars = b[l].repo.stars
                       /\ IndexOfName(L, b[k].repo.name) < IndexOfName(L, b[l].repo.name)
            /\ \A k \in 1..Len(b) :
                  /\ b[k].x = spiralCoord(k - 1)[1] * 80
                  /\ b[k].z = spiralCoord(k - 1)[2] * 80
            /\ Len(b) >= 2 => (b[1].x = 0 /\ b[1].z = 0 /\ b[2].x = 80 /\ b[2].z = 0)

\* The list [a: 0 stars, ijkpee: 10000 stars, b: 10000 stars] was laid out as
\* [ijkpee, b, a]: the sort moved a behind the others and kept the tie in
\* input order.
C5_Witness ==
    /\ lastLayout.called
    /\ lastLayout.repos = <<[name |-> NameA, stars |-> 0],
                            [name |-> NameIjkpee, stars |-> 10000],
                            [name |-> NameB, stars |-> 10000]>>
    /\ lastLayout.buildings[1].repo.name = NameIjkpee
    /\ lastLayout.buildings[2].repo.name = NameB
    /\ lastLayout.buildings[3].repo.name = NameA

\* What C8 says of one call, running or returned.
DrawsAligned(t) ==
    LET k == Len(t.cells)
        stream == StreamFrom(SeedHash(t.seed), 2 * k)
    IN  /\ t.draws = 2 * k
        /\ \A j \in 1..k :
              /\ t.decisionAt[j] = 2 * j - 1
              /\ t.decision[j] = stream[2 * j - 1]

\* C8: after k cells exactly 2k values have been drawn, and the decision of
\* cell j was taken from draw 2j - 1 of the seed's stream, whatever litPct
\* is and however the earlier cells came out.
C8_TwoDrawsPerCell == DrawsAligned(tile) /\ DrawsAligned(prevTile)

\* A running call that has painted lit and unlit cells.
C8_Witness ==
    /\ tile.running
    /\ Len(tile.cells) >= 4
    /\ \E i, j \in 1..Len(tile.cells) : i < j /\ ~tile.lit[i] /\ tile.lit[j]
    /\ \E i, j \in 1..Len(tile.cells) : i < j /\ tile.lit[i] /\ ~tile.lit[j]

\* C9: of two calls with the same seed, window count and palette and with
\* litPct p1 <= p2, every cell lit at p1 is lit at p2 in the same colour, and
\* the cells that are lit at p2 only are those whose decision draw is in
\* [p1, p2).
C9_LitPctKeepsCells ==
    (/\ tile.running /\ Len(tile.cells) = TILE_ROWS * tile.windowsX
     /\ prevTile.seed = tile.seed /\ prevTile.windowsX = tile.windowsX
     /\ prevTile.brandColors = tile.brandColors
     /\ Len(prevTile.cells) = Len(tile.cells)
     /\ prevTile.litPct <= tile.litPct) =>
        \A j \in 1..Len(tile.cells) :
            /\ prevTile.lit[j] => (tile.lit[j] /\ prevTile.cells[j] = tile.cells[j])
            /\ (~prevTile.lit[j] /\ tile.lit[j]) <=>
                   (/\ ~LessThanMilli(tile.decision[j], prevTile.litPct)
                    /\ LessThanMilli(tile.decision[j], tile.litPct))

\* C10: once the rise clock has reached 1, the next rise tick of a building
\* sets its vertical scale to exactly 1 and its centre height to exactly
\* height / 2 and marks it done, and no later step changes the building's
\* scale or position.
C10_RiseTerminality ==
    [][\A i \in 1..Len(buildings) :
          /\ (framePos = i /\ riseProgress >= ClockOne) =>
                /\ mesh'[i].scaleY = ScaleOne
                /\ mesh'[i].positionY = PositionY(buildings[i].height, ScaleOne)
                /\ doneRef'[i]
          /\ fullTicks[i] >= 1 => mesh'[i] = mesh[i]]_vars

\* A building with a start delay has run two rise ticks since the clock
\* reached 1: the forcing one and a later one.
C10_Witness ==
    \E i \in 1..Len(buildings) :
        /\ buildings[i].index = 240
        /\ fullTicks[i] = 2
        /\ doneRef[i]

\* The segment between the centres of two adjacent cells.
SegmentBetween(c, d) ==
    [x |-> 40 * (c[1] + d[1]), z |-> 40 * (c[2] + d[2]), length |-> 80,
     rotY |-> IF c[2] = d[2] THEN 0 ELSE 1]

\* The unordered pairs of orthogonally adjacent occupied cells, each written
\* from its west or south cell.
AdjacentPairs(bs) ==
    LET cells == {GridCell(bs[i]) : i \in 1..Len(bs)}
    IN  {p \in cells \X cells :
            \/ p[2] = <<p[1][1] + 1, p[1][2]>>
            \/ p[2] = <<p[1][1], p[1][2] + 1>>}

\* C11: a finished Roads call has emitted exactly one segment for every pair
\* of buildings on orthogonally adjacent cells and no other segment, and at
\* least 8 segments for the first 9 buildings of a layout.
C11_OneSegmentPerAdjacency ==
    (roads.called /\ ~roads.running) =>
        LET pairs == AdjacentPairs(roads.buildings)
            segs == roads.segments
        IN  /\ Len(segs) = Cardinality(pairs)
            /\ \A p \in pairs :
                  Cardinality({k \in 1..Len(segs) : segs[k] = SegmentBetween(p[1], p[2])}) = 1
            /\ \A k \in 1..Len(segs) :
                  \E p \in pairs : segs[k] = SegmentBetween(p[1], p[2])
            /\ Len(roads.buildings) = 9 => Len(segs) >= 8

\* Roads has returned the 12 segments of the 3x3 block of 9 buildings.
C11_Witness ==
    /\ roads.called /\ ~roads.running /\ roads.geometry
    /\ Len(roads.buildings) = 9
    /\ Len(roads.segments) = 12

\* C12: in every frame the desaturation target of a building is 1 exactly
\* when another building of the current layout is the active one and this
\* building is not active, and 0 otherwise.
C12_TargetFollowsSelection ==
    [][frameParity' # frameParity =>
          \A i \in 1..Len(buildings) :
              lastFrame'[i] = 1000 <=>
                  /\ \E j \in 1..Len(buildings) :
                        j # i /\ buildings[j].name = activeName
                  /\ buildings[i].name # activeName]_vars

\* C13: a desaturation tick that finds the progress within 0.002 of the
\* target, but not on it, sets the progress to the target and writes the
\* final material values; a tick that finds the progress on the target
\* leaves the progress, the materials and the label as they are.
C13_DesatSettles ==
    [][frameParity' # frameParity =>
          \A i \in 1..Len(buildings) :
              LET t == DesatTarget(Desaturated(activeName, buildings[i].name))
              IN  /\ (Abs(desatRef[i] - t) < DesatEps /\ desatRef[i] # t) =>
                        (desatRef'[i] = t /\ materialT'[i] = t)
                  /\ desatRef[i] = t =>
                        /\ desatRef'[i] = desatRef[i]
                        /\ materialT'[i] = materialT[i]
                        /\ labelOpacity'[i] = labelOpacity[i]]_vars

\* A building has settled fully desaturated, with the final material values
\* and the dimmed label, and the latest frame still had the target 1.
C13_Witness ==
    \E i \in 1..Len(buildings) :
        /\ desatRef[i] = 1000 /\ materialT[i] = 1000
        /\ labelOpacity[i] = DimmedLabel
        /\ lastFrame # NoFrame /\ lastFrame[i] = 1000

\* C14: when the scene gets the buildings of another repository list, the
\* rise clock is back at 0 and every building of the new layout has rise not
\* done and desaturation progress 0.
C14_NewLayoutResetsAnimation ==
    [][(buildings # <<>> /\ buildings' # <<>> /\ buildings' # buildings) =>
          /\ riseProgress' = 0
          /\ \A i \in 1..Len(buildings') : ~doneRef'[i] /\ desatRef'[i] = 0]_vars

\* C15: every building record of layoutCity has a positive width and depth,
\* a height of at least 8, at least one floor, and
\* floors = max(1, round(height / 6)).
C15_PositiveDimensions ==
    \A i \in 1..Len(oneLayout.buildings) :
        LET b == oneLayout.buildings[i]
        IN  /\ b.width > 0 /\ b.depth > 0
            /\ b.height >= 80
            /\ b.floors >= 1
            /\ b.floors = Max(1, RoundDiv(b.height, 60))

\* The record of a repository without stars: the smallest building.
C15_Witness ==
    /\ oneLayout.called
    /\ oneRepo.stars = 0
    /\ Len(oneLayout.buildings) = 1
    /\ oneLayout.buildings[1].height = 80
    /\ oneLayout.buildings[1].floors = 1

\* C16: an empty repository list is not an error: layoutCity returns no
\* building, and the pad, street-lamp, accent-light and road builders given
\* that empty array produce no entry and do not throw.
C16_EmptyListBuildsNothing ==
    (ground.called /\ ground.repos = <<>>) =>
        /\ ground.buildings = <<>>
        /\ pads.out = <<>> /\ ~pads.threw
        /\ lampData.out = <<>> /\ ~lampData.threw
        /\ accentLights.out = <<>> /\ ~accentLights.threw
        /\ (roads.called /\ roads.buildings = <<>>) =>
              roads.segments = <<>> /\ ~roads.running /\ ~roads.geometry

\* Every builder has run on the empty array.
C16_Witness ==
    /\ ground.called /\ ground.repos = <<>>
    /\ pads.run /\ lampData.run /\ accentLights.run
    /\ roads.called /\ roads.buildings = <<>>

\* C17: checkRateLimit allows exactly the first 5 calls per IP per UTC day:
\* whatever the interleaving, the calls of a key get distinct counts, at most
\* 5 of which are allowed; the call that counted n returns allowed with
\* remaining 5 - n when n <= 5 and not allowed with remaining 0 when n > 5; a
\* call without a client or with a failed command returns allowed.
C17_RateLimit ==
    /\ \A c \in rateReturned :
          IF c.count > 0 /\ ~c.failed
          THEN /\ c.allowed <=> c.count <= 5
               /\ c.remaining = IF c.count <= 5 THEN 5 - c.count ELSE 0
          ELSE c.allowed
    /\ \A key \in DOMAIN rateHanded :
          /\ \A a, b \in 1..Len(rateHanded[key]) :
                a # b => rateHanded[key][a] # rateHanded[key][b]
          /\ Cardinality({a \in 1..Len(rateHanded[key]) : rateHanded[key][a] <= 5}) <= 5

\* Six calls of one key have counted and returned, the sixth rejected, and
\* another call met a failing command.
C17_Witness ==
    /\ \E key \in RateKeys :
          {c.count : c \in {d \in rateReturned : d.key = key /\ ~d.failed}} = 1..6
    /\ \E c \in rateReturned : c.failed /\ c.allowed

StepRank(call) ==
    CASE call = "validate" -> 1
      [] call = "getCached" -> 2
      [] call = "checkRateLimit" -> 3
      [] call = "upstream" -> 4
      [] call = "setCached" -> 5

Calls(r) == {r.calls[k] : k \in 1..Len(r.calls)}

\* C19: the org route validates the name, then looks the cache up, then
\* checks the rate limit, then fetches upstream: a request answered from the
\* cache has not called checkRateLimit, and a request rejected with 400 for
\* its name or with 429 has called neither the upstream API nor setCached.
C19_RouteOrder ==
    \A r \in responses :
        /\ \A k, l \in 1..Len(r.calls) : k < l => StepRank(r.calls[k]) < StepRank(r.calls[l])
        /\ r.pc = "cached" => "checkRateLimit" \notin Calls(r)
        /\ ((r.status = 400 /\ ~GITHUB_ORG_RE(r.org)) \/ r.status = 429) =>
              "upstream" \notin Calls(r) /\ "setCached" \notin Calls(r)

\* Answered so far: a request from the cache, one with 429 and one with 400
\* for its name.
C19_Witness ==
    /\ \E r \in responses : r.pc = "cached"
    /\ \E r \in responses : r.status = 429
    /\ \E r \in responses : r.status = 400 /\ ~GITHUB_ORG_RE(r.org)

\* C20: on the city page stale data never renders: once the effects of a
\* change of the org parameter have run, the city the page shows is made of
\* the repositories and the site data fetched for the current org, whatever
\* the order in which the responses arrive.
C20_NoStaleData ==
    (pageMounted /\ ~effectsPending /\ Renders = "city") =>
        /\ data.org = pageOrg
        /\ siteData # Null => siteData.org = pageOrg

\* C21: the rise clock has a single writer and only moves forward: no step
\* lowers it, the rise tick of a building leaves it as it is, and the clock
\* tick of CityScene with a frame time delta >= 0 sets it to
\* min(1, previous + delta * 0.6) while it is below 1 and leaves it unchanged
\* once it is 1.
C21_ClockSingleWriter ==
    [][/\ riseProgress' >= riseProgress
       /\ framePos # Len(buildings) + 1 => riseProgress' = riseProgress
       /\ framePos = Len(buildings) + 1 =>
             \E delta \in FrameDeltas :
                 riseProgress' = IF riseProgress < ClockOne
                                 THEN Min(ClockOne, riseProgress + 5 * delta)
                                 ELSE riseProgress]_vars

\* The clock callback has run with the clock at 1: every building has run
\* its second rise tick since the clock got there, and the clock is still 1.
C21_Witness ==
    /\ buildings # <<>>
    /\ framePos = Len(buildings) + 1
    /\ riseProgress = ClockOne
    /\ \A i \in 1..Len(buildings) : fullTicks[i] = 2

\* C22: under every interleaving of frames with hover, click and deselect
\* events the rise clock and the desaturation progress of every building
\* stay within [0, 1], and the desaturation tick of a frame leaves the
\* progress between its previous value and the target of that frame: it
\* never moves the progress past the target.
C22_ProgressBounded ==
    /\ [](/\ riseProgress \in 0..ClockOne
          /\ \A i \in 1..Len(desatRef) : desatRef[i] \in 0..1000)
    /\ [][frameParity' # frameParity =>
             \A i \in 1..Len(buildings) :
                 LET t == DesatTarget(Desaturated(activeName, buildings[i].name))
                 IN  /\ desatRef[i] <= t =>
                           (desatRef[i] <= desatRef'[i] /\ desatRef'[i] <= t)
                     /\ desatRef[i] >= t =>
                           (t <= desatRef'[i] /\ desatRef'[i] <= desatRef[i])]_vars

\* The clock is at 1 and a building, partly desaturated, has been moved back
\* towards the target 0 by the latest frame without reaching it.
C22_Witness ==
    /\ riseProgress = ClockOne
    /\ \E i \in 1..Min(Len(buildings), Len(lastFrame)) :
          /\ lastFrame[i] = 0
          /\ desatRef[i] > 0 /\ desatRef[i] < 900

GroundRendered ==
    /\ ground.called
    /\ pads.run /\ lampData.run
    /\ ground.siteData.defined => accentLights.run

\* C24: accent lights are placed exactly when branding is supplied: a
\* rendered scene with a brand colour has one accent light beside each of
\* the first min(4, n) buildings of the layout and no other, and a rendered
\* scene without site data or without a brand colour has no accent light.
C24_AccentLightsIffBranding ==
    GroundRendered =>
        IF ground.siteData.defined /\ ground.siteData.primary # NoColor
        THEN /\ Len(accentLights.out) = Min(4, Len(ground.buildings))
             /\ \A i \in 1..Len(accentLights.out) :
                   LET b == ground.buildings[i]
                       at == accentLights.out[i].position
                   IN  /\ Abs(at.x - 2000 * b.x) = b.width + 8000
                       /\ Abs(at.z - 2000 * b.z) <= b.depth
        ELSE accentLights.out = <<>>

\* C25: while a blog URL that the profile lookup has put into the landing
\* form awaits the user's Yes or No, the submit button is disabled and the
\* form does not navigate to the city page; this holds for every
\* suggestion, also for one made after an earlier suggestion was answered
\* or after the org name was changed.
C25_SuggestionBlocksSubmit ==
    /\ [](awaiting => SubmitDisabled)
    /\ [][awaiting => homeMounted']_vars

\* C26: the access index and the cached entries agree under concurrency:
\* once every call of getCached and setCached has returned, an org is a
\* member of org:access exactly when its org:cache: key exists; a getCached
\* hit that races with an eviction leaves no member without data.
C26_IndexMatchesEntries ==
    cacheCalls = <<>> => DOMAIN access = cacheData

\* The Building of that name is mounted and the latest frame had the
\* desaturation target the building has now: no event has changed the
\* target since the desaturation tick ran last.
TargetKept(name) ==
    /\ mounted /\ HasKey(buildings, name)
    /\ LET i == IndexOfKey(buildings, name)
       IN  /\ i <= Len(lastFrame)
           /\ lastFrame[i] = DesatTarget(Desaturated(activeName, name))

\* desatRef.current of that Building is exactly its target.
OnTarget(name) ==
    desatRef[IndexOfKey(buildings, name)] = DesatTarget(Desaturated(activeName, name))

\* C27: desaturation converges: while frames keep arriving, each with a
\* frame time of at least 0.15 s, the desaturation progress of a building
\* whose target stays unchanged is, after finitely many frames, exactly the
\* target; it does not approach the target for ever.
C27_DesatConverges ==
    /\ []<>(TargetKept(NameA) => OnTarget(NameA))
    /\ []<>(TargetKept(NameB) => OnTarget(NameB))

\* The first building is selected and the second one, whose target the
\* latest frame found to be 1, has arrived at exactly 1 while the rise has
\* ended.
C27_Witness ==
    /\ mounted /\ Len(buildings) = 2 /\ Len(lastFrame) = 2
    /\ activeName = buildings[1].name
    /\ lastFrame[2] = 1000
    /\ desatRef[2] = 1000 /\ desatRef[1] = 0 /\ materialT[1] = 0
    /\ riseProgress = ClockOne

\* The rise-in state of a building: 0 pending (the scale is 0.001, or no
\* tick has written the mesh yet), 1 rising, 2 settled.
RiseStage(m, done) ==
    IF done THEN 2
    ELSE IF m.scaleY > 100 /\ m.scaleY < ScaleOne THEN 1
    ELSE 0

C29_SettledLabelDimmed ==
    \A i \in 1..Len(buildings) :
        (/\ desatRef[i] = 1000
         /\ DesatTarget(Desaturated(activeName, buildings[i].name)) = 1000) =>
            labelOpacity[i] = DimmedLabel

\* The buildings whose active prop, and whose hovered prop, is true.
ActiveBuildings == {i \in 1..Len(buildings) : activeName = buildings[i].name}
HoveredBuildings == {i \in 1..Len(buildings) : hoveredName = buildings[i].name}

\* C30: the selection: at most one building is active and at most one is
\* hovered; a click on the active building clears the selection, a click on
\* another building makes that building, and no other, the active one, and a
\* pointer-missed event clears the selection; none of them changes the
\* hovered building.
C30_SelectionStateMachine ==
    /\ [](Cardinality(ActiveBuildings) <= 1 /\ Cardinality(HoveredBuildings) <= 1)
    /\ [][/\ \A i \in 1..Len(buildings) :
                ClickBuilding(i) =>
                    /\ i \in ActiveBuildings => activeName' = NoName
                    /\ i \notin ActiveBuildings =>
                          {j \in 1..Len(buildings') : activeName' = buildings'[j].name} = {i}
                    /\ hoveredName' = hoveredName
          /\ PointerMissed =>
                (activeName' = NoName /\ hoveredName' = hoveredName)]_vars

\* One building is hovered and the other one is active, selected by a click
\* that took the selection from the hovered one, which is half desaturated.
C30_Witness ==
    /\ mounted /\ Len(buildings) = 2
    /\ ActiveBuildings = {2} /\ HoveredBuildings = {1}
    /\ desatRef[2] = 900 /\ desatRef[1] = 0

====
